---- MODULE Spec2Model ----
(***************************************************************************)
(* Attendance ledger and monthly payroll of the NPS HR system.             *)
(*                                                                         *)
(* Two variants of the payroll engine live in the repository: the local    *)
(* one (app.py, SQLite) and the cloud one (core.py + db.py, Postgres).     *)
(* Both work on the same two tables, workers and attendance, so the model  *)
(* keeps one copy of each table and one operation per function of either   *)
(* variant.                                                                *)
(*                                                                         *)
(* Numbers: Python floats are modelled by exact non-negative rationals     *)
(* [n, d] in lowest terms; Series.round(2) is rounding of the exact value  *)
(* to hundredths, ties to even.  A time text is a sequence of characters;  *)
(* a date is <<year, month, day>>, whose lexicographic order is the order  *)
(* of the ISO strings the queries compare.                                 *)
(***************************************************************************)
EXTENDS Integers, Sequences, FiniteSets, Bags, TLC

\* ---------------------------------------------------------------- policy
STANDARD_DAILY_HOURS == 9
OVERTIME_MULTIPLIER == 1
\* core.py's fixed month length
FIXED_DAYS_IN_MONTH == 30

\* ------------------------------------------------------------- rationals
RECURSIVE Gcd(_, _)
Gcd(a, b) == IF b = 0 THEN a ELSE Gcd(b, a % b)

Lcm(a, b) == (a \div Gcd(a, b)) * b

\* the float n/d, for n >= 0 and d > 0
Rat(n, d) == LET g == Gcd(n, d) IN [n |-> n \div g, d |-> d \div g]

Zero == [n |-> 0, d |-> 1]

FromInt(i) == [n |-> i, d |-> 1]

RAdd(a, b) ==
  LET l == Lcm(a.d, b.d)
  IN  Rat(a.n * (l \div a.d) + b.n * (l \div b.d), l)

RMul(a, b) ==
  LET g1 == Gcd(a.n, b.d)
      g2 == Gcd(b.n, a.d)
  IN  [n |-> (a.n \div g1) * (b.n \div g2), d |-> (a.d \div g2) * (b.d \div g1)]

\* a / b for b > 0
RDiv(a, b) == RMul(a, [n |-> b.d, d |-> b.n])

RLe(a, b) ==
  LET g == Gcd(a.d, b.d)
  IN  a.n * (b.d \div g) <= b.n * (a.d \div g)

\* max(a - b, 0)
RSubClamp(a, b) ==
  IF RLe(a, b) THEN Zero
  ELSE LET l == Lcm(a.d, b.d)
       IN  Rat(a.n * (l \div a.d) - b.n * (l \div b.d), l)

\* the sum of the floats of s (exact, so in any order: by halves)
RECURSIVE RSum(_)
RSum(s) ==
  IF s = <<>> THEN Zero
  ELSE IF Len(s) = 1 THEN s[1]
  ELSE LET h == Len(s) \div 2
       IN  RAdd(RSum(SubSeq(s, 1, h)), RSum(SubSeq(s, h + 1, Len(s))))

\* Series.round(2): the nearest multiple of 0.01, ties to even
Round2(r) ==
  LET whole == r.n \div r.d
      rem   == r.n % r.d
      c     == (100 * rem) \div r.d
      rr    == (100 * rem) % r.d
      up    == IF 2 * rr > r.d \/ (2 * rr = r.d /\ c % 2 = 1) THEN 1 ELSE 0
  IN  Rat(100 * whole + c + up, 100)

\* a float that prints with at most two decimals
IsRounded2(r) == 100 % r.d = 0

\* ----------------------------------------------------------------- dates
IsLeap(y) == y % 4 = 0 /\ (y % 100 # 0 \/ y % 400 = 0)

DaysInMonthTable(y, m) ==
  IF m = 2 THEN (IF IsLeap(y) THEN 29 ELSE 28)
  ELSE IF m \in {4, 6, 9, 11} THEN 30 ELSE 31

DaysBeforeYear(y) ==
  LET p == y - 1 IN p * 365 + (p \div 4) - (p \div 100) + (p \div 400)

RECURSIVE DaysBeforeMonth(_, _)
DaysBeforeMonth(y, m) ==
  IF m = 1 THEN 0 ELSE DaysBeforeMonth(y, m - 1) + DaysInMonthTable(y, m - 1)

\* date.toordinal(), the number date subtraction works on
Ordinal(dt) == DaysBeforeYear(dt[1]) + DaysBeforeMonth(dt[1], dt[2]) + dt[3]

\* order of ISO date strings "YYYY-MM-DD" = lexicographic order of the fields
DateLt(a, b) ==
  \/ a[1] < b[1]
  \/ a[1] = b[1] /\ a[2] < b[2]
  \/ a[1] = b[1] /\ a[2] = b[2] /\ a[3] < b[3]

DateGe(a, b) == ~DateLt(a, b)

\* TODAY - timedelta(days = 1)
DayBefore(dt) ==
  IF dt[3] > 1 THEN <<dt[1], dt[2], dt[3] - 1>>
  ELSE IF dt[2] > 1 THEN <<dt[1], dt[2] - 1, DaysInMonthTable(dt[1], dt[2] - 1)>>
  ELSE <<dt[1] - 1, 12, 31>>

RECURSIVE DaysAgo(_, _)
DaysAgo(dt, i) == IF i = 0 THEN dt ELSE DaysAgo(DayBefore(dt), i - 1)

\* ------------------------------------------------------------ time texts
None == <<"NULL">>

Digits == <<"0", "1", "2", "3", "4", "5", "6", "7", "8", "9">>

IsDigit(c) == \E i \in 1..10 : Digits[i] = c

DigitVal(c) == (CHOOSE i \in 1..10 : Digits[i] = c) - 1

\* time.strftime("%H:%M")
Strftime(h, m) ==
  <<Digits[(h \div 10) + 1], Digits[(h % 10) + 1], ":",
    Digits[(m \div 10) + 1], Digits[(m % 10) + 1]>>

\* the %M directive on what follows the colon: ([0-5]\d|\d), then the
\* "unconverted data remains" check
ParseMinute(rest) ==
  IF Len(rest) >= 2 /\ IsDigit(rest[1]) /\ DigitVal(rest[1]) <= 5 /\ IsDigit(rest[2])
  THEN [ok |-> Len(rest) = 2, m |-> 10 * DigitVal(rest[1]) + DigitVal(rest[2])]
  ELSE IF Len(rest) >= 1 /\ IsDigit(rest[1])
  THEN [ok |-> Len(rest) = 1, m |-> DigitVal(rest[1])]
  ELSE [ok |-> FALSE, m |-> 0]

\* datetime.strptime(s, "%H:%M"): %H is (2[0-3]|[0-1]\d|\d); ok = FALSE is
\* the ValueError (or, for a value that is no string, the TypeError)
Strptime(s) ==
  IF s = None THEN [ok |-> FALSE, h |-> 0, m |-> 0]
  ELSE IF /\ Len(s) >= 3 /\ IsDigit(s[1]) /\ IsDigit(s[2]) /\ s[3] = ":"
          /\ 10 * DigitVal(s[1]) + DigitVal(s[2]) <= 23
  THEN LET pm == ParseMinute(SubSeq(s, 4, Len(s)))
       IN  [ok |-> pm.ok, h |-> 10 * DigitVal(s[1]) + DigitVal(s[2]), m |-> pm.m]
  ELSE IF Len(s) >= 2 /\ IsDigit(s[1]) /\ s[2] = ":"
  THEN LET pm == ParseMinute(SubSeq(s, 3, Len(s)))
       IN  [ok |-> pm.ok, h |-> DigitVal(s[1]), m |-> pm.m]
  ELSE [ok |-> FALSE, h |-> 0, m |-> 0]

\* Python's truth test of a time value: None and "" are false
Falsy(t) == t = None \/ t = <<>>

Returned(v) == [exc |-> FALSE, val |-> v]

Raised == [exc |-> TRUE, val |-> Zero]

\* the minutes of the two times dropped
SecondsBetweenHoursOnly(pi, po) == po.h * 3600 - pi.h * 3600

\* seconds between the two times of day, may be negative
SecondsBetween(pi, po) == (po.h * 3600 + po.m * 60) - (pi.h * 3600 + pi.m * 60)

\* (dt2 - dt1).total_seconds() of app.py: dt1 and dt2 are each combined with
\* a date.today() of their own; midnight = the day changed between the two
\* reads, which puts dt2 a day later
SecondsApart(pi, po, midnight) ==
  SecondsBetween(pi, po) + (IF midnight THEN 86400 ELSE 0)

\* app.py _hours_between without its try/except
HoursBetweenAppUncaught(t_in, t_out, midnight) ==
  IF Falsy(t_in) \/ Falsy(t_out) THEN Returned(Zero)
  ELSE LET pi == Strptime(t_in)
           po == Strptime(t_out)
       IN  IF ~pi.ok \/ ~po.ok THEN Raised
           ELSE IF SecondsApart(pi, po, midnight) <= 0 THEN Returned(Zero)
           ELSE Returned(Rat(SecondsApart(pi, po, midnight), 3600))

\* app.py _hours_between
HoursBetweenApp(t_in, t_out, midnight) ==
  IF Falsy(t_in) \/ Falsy(t_out) THEN Returned(Zero)
  ELSE LET pi == Strptime(t_in)
           po == Strptime(t_out)
       IN  IF ~pi.ok \/ ~po.ok THEN Returned(Zero)
           ELSE IF SecondsApart(pi, po, midnight) <= 0 THEN Returned(Zero)
           ELSE Returned(Rat(SecondsApart(pi, po, midnight), 3600))

\* the calls of _hours_between that get as far as reading the clock
ReadsClock(t_in, t_out) ==
  ~Falsy(t_in) /\ ~Falsy(t_out) /\ Strptime(t_in).ok /\ Strptime(t_out).ok

\* core.py hours_between
HoursBetweenCore(t_in, t_out) ==
  IF Falsy(t_in) \/ Falsy(t_out) THEN Returned(Zero)
  ELSE LET pi == Strptime(t_in)
           po == Strptime(t_out)
       IN  IF ~pi.ok \/ ~po.ok THEN Returned(Zero)
           ELSE IF SecondsBetween(pi, po) < 0 THEN Returned(Zero)
           ELSE Returned(Rat(SecondsBetween(pi, po), 3600))

\* ---------------------------------------------------------------- tables
VARIABLES workers, attendance, projects, project_workers, worker_seq,
          session_state, connections, op, ret

vars == <<workers, attendance, projects, project_workers, worker_seq,
          session_state, connections, op, ret>>

\* what the attendance, payroll and report operations leave alone
rest == <<projects, project_workers, worker_seq, session_state, connections>>

\* project_id = None: company-wide scope
NoProject == 0

\* sample_workers of init_db: worker_code NPS-W000<id> and salary, by id
SampleSalary == <<5000, 7000, 3000, 6000, 4500, 5500, 4000>>

SampleWorker(i) == [id |-> i, worker_code |-> i, salary |-> SampleSalary[i]]

AttRecord(w, p, d, s, ti, to) ==
  [worker_id |-> w, project_id |-> p, att_date |-> d, signed_in |-> s,
   time_in |-> ti, time_out |-> to]

\* the rows of a table, each as often as it occurs
RECURSIVE BagRows(_)
BagRows(b) ==
  IF DOMAIN b = {} THEN <<>>
  ELSE LET r == CHOOSE x \in DOMAIN b : TRUE
       IN  [i \in 1..b[r] |-> r] \o BagRows([x \in DOMAIN b \ {r} |-> b[x]])

\* SELECT ... WHERE keep(row)
BagFilter(b, keep) == [x \in DOMAIN b \cap keep |-> b[x]]

\* the workers table in id order
RECURSIVE WorkerRows(_)
WorkerRows(ws) ==
  IF ws = {} THEN <<>>
  ELSE LET w == CHOOSE x \in ws : \A y \in ws : x.id <= y.id
       IN  <<w>> \o WorkerRows(ws \ {w})

\* -------------------------------------------------- attendance entry
\* the INSERT without the DELETE before it
ReplaceAttendanceKeepOld(att, w, p, d, present, ti, to) ==
  IF present # 0 THEN att (+) SetToBag({AttRecord(w, p, d, 1, ti, to)}) ELSE att

\* the DELETE narrowed to the record's project
ReplaceAttendanceByProject(att, w, p, d, present, ti, to) ==
  LET kept == BagFilter(att, {r \in DOMAIN att :
                  ~(r.worker_id = w /\ r.att_date = d /\ r.project_id = p)})
  IN  IF present # 0 THEN kept (+) SetToBag({AttRecord(w, p, d, 1, ti, to)}) ELSE kept

\* DELETE FROM attendance WHERE worker_id=? AND att_date=?, then the INSERT
\* when present, committed together
ReplaceAttendance(att, w, p, d, present, ti, to) ==
  LET kept == BagFilter(att, {r \in DOMAIN att : ~(r.worker_id = w /\ r.att_date = d)})
  IN  IF present # 0 THEN kept (+) SetToBag({AttRecord(w, p, d, 1, ti, to)}) ELSE kept

\* ------------------------------------------------------- payroll, app.py
\* month_start, month_end of app.py
MonthStart(year, month) == <<year, month, 1>>

MonthEndApp(year, month) ==
  IF month = 12 THEN <<year + 1, 1, 1>> ELSE <<year, month + 1, 1>>

\* (month_end - month_start).days
DaysInMonthApp(year, month) ==
  Ordinal(MonthEndApp(year, month)) - Ordinal(MonthStart(year, month))

\* the range closed at its end: att_date <= ?
AttendanceInRangeInclusive(att, start, end) ==
  BagFilter(att, {r \in DOMAIN att :
     DateGe(r.att_date, start) /\ ~DateLt(end, r.att_date) /\ r.signed_in = 1})

\* WHERE att_date >= ? AND att_date < ? AND signed_in = 1
AttendanceInRange(att, start, end) ==
  BagFilter(att, {r \in DOMAIN att :
     DateGe(r.att_date, start) /\ DateLt(r.att_date, end) /\ r.signed_in = 1})

\* no row: the run did not pass midnight inside a call of _hours_between
NoRecord == AttRecord(0, NoProject, <<0, 0, 0>>, 0, None, None)

\* the rows of att as att.apply hands them to _hours_between one by one:
\* rolled is the row, if any, during whose call the day changed
Clocked(r, rolled) ==
  [f \in DOMAIN r \cup {"midnight"} |-> IF f = "midnight" THEN r = rolled ELSE r[f]]

WithClock(att, rolled) ==
  [x \in {Clocked(r, rolled) : r \in DOMAIN att}
     |-> att[[f \in DOMAIN x \ {"midnight"} |-> x[f]]]]

\* the rows whose call of _hours_between reads the clock
ClockReaders(att) == {r \in DOMAIN att : ReadsClock(r.time_in, r.time_out)}

\* att["hours"] of one row
HoursOfApp(r) == HoursBetweenApp(r.time_in, r.time_out, r.midnight)

\* att["ot_hours"]: max(h - STANDARD_DAILY_HOURS, 0.0)
OtHours(h) == RSubClamp(h, FromInt(STANDARD_DAILY_HOURS))

\* the overtime taken from the month's total hours against 9 hours a day,
\* so that short days offset long ones
GroupAppMonthlyOvertime(att, w) ==
  LET rows == BagRows(BagFilter(att, {r \in DOMAIN att : r.worker_id = w}))
      hrs  == [i \in 1..Len(rows) |-> HoursOfApp(rows[i]).val]
  IN  [days_present   |-> Cardinality({rows[i].att_date : i \in 1..Len(rows)}),
       total_hours    |-> RSum(hrs),
       overtime_hours |-> RSubClamp(RSum(hrs),
                                    FromInt(STANDARD_DAILY_HOURS * Len(rows)))]

\* days_present counting only the dates with a full standard day of hours
GroupAppFullDays(att, w) ==
  LET rows == BagRows(BagFilter(att, {r \in DOMAIN att : r.worker_id = w}))
      hrs  == [i \in 1..Len(rows) |-> HoursOfApp(rows[i]).val]
  IN  [days_present   |-> Cardinality({rows[i].att_date : i \in
                            {j \in 1..Len(rows) :
                               RLe(FromInt(STANDARD_DAILY_HOURS), hrs[j])}}),
       total_hours    |-> RSum(hrs),
       overtime_hours |-> RSum([i \in 1..Len(hrs) |-> OtHours(hrs[i])])]

\* groupby("worker_id").agg(nunique(att_date), sum(hours), sum(ot_hours)),
\* the group of worker w
GroupApp(att, w) ==
  LET rows == BagRows(BagFilter(att, {r \in DOMAIN att : r.worker_id = w}))
      hrs  == [i \in 1..Len(rows) |-> HoursOfApp(rows[i]).val]
  IN  [days_present   |-> Cardinality({rows[i].att_date : i \in 1..Len(rows)}),
       total_hours    |-> RSum(hrs),
       overtime_hours |-> RSum([i \in 1..Len(hrs) |-> OtHours(hrs[i])])]

NoGroup == [days_present |-> 0, total_hours |-> Zero, overtime_hours |-> Zero]

\* the worker_id keys of a groupby
GroupKeys(att) == {r.worker_id : r \in DOMAIN att}

\* how="left" merge and fillna(0): the group of w, or zeros
LeftGroupApp(att, w) == IF w \in GroupKeys(att) THEN GroupApp(att, w) ELSE NoGroup

\* salary / (days_in_month * STANDARD_DAILY_HOURS)
HourlyRate(salary, dim) == Rat(salary, dim * STANDARD_DAILY_HOURS)

\* salary * (days_present / days_in_month)
BaseEarned(salary, dp, dim) == RMul(FromInt(salary), Rat(dp, dim))

\* hourly_rate * overtime_hours * OVERTIME_MULTIPLIER
OvertimePay(salary, dim, ot) ==
  RMul(RMul(HourlyRate(salary, dim), ot), FromInt(OVERTIME_MULTIPLIER))

\* the "no attendance at all" rows (app.py 413-437)
ZeroRowApp(w, dim) ==
  [worker_code    |-> w.worker_code,
   salary         |-> w.salary,
   days_in_month  |-> dim,
   days_present   |-> 0,
   total_hours    |-> Zero,
   overtime_hours |-> Zero,
   hourly_rate    |-> HourlyRate(w.salary, dim),
   overtime_pay   |-> Zero,
   net_pay        |-> Zero]

\* one row of the company-wide payroll (app.py 452-495)
GlobalRowApp(w, att, dim) ==
  LET g   == LeftGroupApp(att, w.id)
      otp == OvertimePay(w.salary, dim, g.overtime_hours)
  IN  [worker_code    |-> w.worker_code,
       salary         |-> w.salary,
       days_in_month  |-> dim,
       days_present   |-> g.days_present,
       total_hours    |-> Round2(g.total_hours),
       overtime_hours |-> Round2(g.overtime_hours),
       hourly_rate    |-> Round2(HourlyRate(w.salary, dim)),
       overtime_pay   |-> Round2(otp),
       net_pay        |-> Round2(RAdd(BaseEarned(w.salary, g.days_present, dim), otp))]

\* the whole base_earned_total on every project, the hours share dropped
BaseShareWhole(base_earned_total, days, days_all, total_hours, total_hours_all) ==
  IF total_hours_all.n <= 0 THEN Zero ELSE base_earned_total

\* the share taken by days on the project, with no test of the hours
BaseShareByDays(base_earned_total, days, days_all, total_hours, total_hours_all) ==
  IF days_all <= 0 THEN Zero ELSE RMul(base_earned_total, Rat(days, days_all))

\* _base_share (app.py 528-531)
BaseShare(base_earned_total, days, days_all, total_hours, total_hours_all) ==
  IF total_hours_all.n <= 0 THEN Zero
  ELSE RMul(base_earned_total, RDiv(total_hours, total_hours_all))

\* one row of the per-project payroll (app.py 509-566)
ProjectRowApp(w, att, att_proj, dim) ==
  LET g     == GroupApp(att_proj, w.id)
      all   == LeftGroupApp(att, w.id)
      share == BaseShare(BaseEarned(w.salary, all.days_present, dim),
                         g.days_present, all.days_present,
                         g.total_hours, all.total_hours)
      otp   == OvertimePay(w.salary, dim, g.overtime_hours)
  IN  [worker_code    |-> w.worker_code,
       salary         |-> w.salary,
       days_in_month  |-> dim,
       days_present   |-> g.days_present,
       total_hours    |-> Round2(g.total_hours),
       overtime_hours |-> Round2(g.overtime_hours),
       hourly_rate    |-> Round2(HourlyRate(w.salary, dim)),
       base_share     |-> Round2(share),
       overtime_pay   |-> Round2(otp),
       net_pay        |-> Round2(RAdd(share, otp))]

\* SelectSeq without an operator argument: the rows whose worker is in keys
RECURSIVE KeepWorkers(_, _)
KeepWorkers(rows, keys) ==
  IF rows = <<>> THEN <<>>
  ELSE (IF Head(rows).id \in keys THEN <<Head(rows)>> ELSE <<>>)
       \o KeepWorkers(Tail(rows), keys)

\* workers.merge(summary, how="inner"): the workers that have a group
InnerMerge(wrows, keys) == KeepWorkers(wrows, keys)

\* the merge taken as how="inner": workers without a group dropped
MergeAsInner(wrows, keys) == KeepWorkers(wrows, keys)

\* workers.merge(summary, how="left"): every worker of the directory
LeftMerge(wrows, keys) == wrows

DataFrame(rows) == [kind |-> "DataFrame", rows |-> rows]

NoneValue == [kind |-> "None", rows |-> <<>>]

Exception == [kind |-> "Exception", rows |-> <<>>]

\* att[att["project_id"] == project_id]
OfProject(att, project_id) ==
  BagFilter(att, {r \in DOMAIN att : r.project_id = project_id})

\* app.py generate_monthly_payroll(year, month, project_id)
GenerateMonthlyPayrollApp(ws, ledger, year, month, project_id, rolled) ==
  LET dim      == DaysInMonthApp(year, month)
      att      == WithClock(AttendanceInRange(ledger, MonthStart(year, month),
                                              MonthEndApp(year, month)), rolled)
      wrows    == WorkerRows(ws)
      att_proj == OfProject(att, project_id)
      left     == LeftMerge(wrows, GroupKeys(att))
      inner    == InnerMerge(wrows, GroupKeys(att_proj))
  IN  IF ws = {} THEN NoneValue
      ELSE IF DOMAIN att = {}
      THEN DataFrame([i \in 1..Len(wrows) |-> ZeroRowApp(wrows[i], dim)])
      ELSE IF \E r \in DOMAIN att : HoursOfApp(r).exc THEN Exception
      ELSE IF project_id = NoProject
      THEN DataFrame([i \in 1..Len(left) |-> GlobalRowApp(left[i], att, dim)])
      ELSE IF DOMAIN att_proj = {} THEN DataFrame(<<>>)
      ELSE DataFrame([i \in 1..Len(inner) |-> ProjectRowApp(inner[i], att, att_proj, dim)])

\* ------------------------------------------------------ payroll, core.py
\* date(year + (month // 12), (month % 12) + 1, 1)
MonthEndCore(year, month) == <<year + (month \div 12), (month % 12) + 1, 1>>

HoursOfCore(r) == HoursBetweenCore(r.time_in, r.time_out)

GroupCore(att, w) ==
  LET rows == BagRows(BagFilter(att, {r \in DOMAIN att : r.worker_id = w}))
      hrs  == [i \in 1..Len(rows) |-> HoursOfCore(rows[i]).val]
  IN  [days_present   |-> Cardinality({rows[i].att_date : i \in 1..Len(rows)}),
       total_hours    |-> RSum(hrs),
       overtime_hours |-> RSum([i \in 1..Len(hrs) |-> OtHours(hrs[i])])]

LeftGroupCore(att, w) == IF w \in GroupKeys(att) THEN GroupCore(att, w) ELSE NoGroup

\* the rows of the two "attendance.empty" returns (core.py 64-87)
ZeroRowCore(w, dim) ==
  [worker_code    |-> w.worker_code,
   salary         |-> w.salary,
   days_in_month  |-> dim,
   days_present   |-> 0,
   total_hours    |-> Zero,
   overtime_hours |-> Zero,
   hourly_rate    |-> Zero,
   overtime_pay   |-> Zero,
   deductions     |-> Zero,
   net_pay        |-> Zero]

\* one row of core.py 103-138
RowCore(w, att, dim) ==
  LET g          == LeftGroupCore(att, w.id)
      daily_rate == Rat(w.salary, dim)
      base       == RMul(daily_rate, FromInt(g.days_present))
      rate       == RDiv(daily_rate, FromInt(STANDARD_DAILY_HOURS))
      otp        == RMul(RMul(rate, g.overtime_hours), FromInt(OVERTIME_MULTIPLIER))
  IN  [worker_code    |-> w.worker_code,
       salary         |-> w.salary,
       days_in_month  |-> dim,
       days_present   |-> g.days_present,
       total_hours    |-> g.total_hours,
       overtime_hours |-> g.overtime_hours,
       hourly_rate    |-> rate,
       overtime_pay   |-> otp,
       deductions     |-> Zero,
       net_pay        |-> Round2(RAdd(base, otp))]

\* core.py generate_monthly_payroll(year, month, project_id)
GenerateMonthlyPayrollCore(ws, ledger, year, month, project_id) ==
  LET dim   == FIXED_DAYS_IN_MONTH
      range == AttendanceInRange(ledger, MonthStart(year, month),
                                 MonthEndCore(year, month))
      att   == IF project_id # NoProject THEN OfProject(range, project_id) ELSE range
      wrows == WorkerRows(ws)
      left  == LeftMerge(wrows, GroupKeys(att))
  IN  IF ws = {} THEN DataFrame(<<>>)
      ELSE IF DOMAIN range = {} \/ DOMAIN att = {}
      THEN DataFrame([i \in 1..Len(wrows) |-> ZeroRowCore(wrows[i], dim)])
      ELSE IF \E r \in DOMAIN att : HoursOfCore(r).exc THEN Exception
      ELSE DataFrame([i \in 1..Len(left) |-> RowCore(left[i], att, dim)])

\* ------------------------------------------- attendance report, app.py
\* the place of each sample worker's name in ORDER BY name
SampleNameRank == <<1, 5, 3, 6, 4, 7, 2>>

\* FROM workers w JOIN attendance a ON w.id = a.worker_id
\* WHERE a.att_date >= ? AND a.att_date < ?
ReportSelection(ws, ledger, year, month) ==
  BagFilter(ledger, {r \in DOMAIN ledger :
     /\ DateGe(r.att_date, MonthStart(year, month))
     /\ DateLt(r.att_date, MonthEndCore(year, month))
     /\ r.worker_id \in {w.id : w \in ws}})

\* ORDER BY a.att_date DESC, w.name
ReportBefore(a, b) ==
  \/ DateLt(b.att_date, a.att_date)
  \/ a.att_date = b.att_date
       /\ SampleNameRank[a.worker_id] < SampleNameRank[b.worker_id]

RECURSIVE ReportOrder(_)
ReportOrder(b) ==
  IF DOMAIN b = {} THEN <<>>
  ELSE LET r == CHOOSE x \in DOMAIN b : \A y \in DOMAIN b : ~ReportBefore(y, x)
       IN  [i \in 1..b[r] |-> r] \o ReportOrder([x \in DOMAIN b \ {r} |-> b[x]])

\* one row of the "Daily Records" table: hours and ot_hours are computed
\* for every selected record
DailyRecord(ws, r) ==
  LET h == HoursOfApp(r).val
  IN  [worker_code |-> (CHOOSE w \in ws : w.id = r.worker_id).worker_code,
       project_id  |-> r.project_id,
       att_date    |-> r.att_date,
       signed_in   |-> r.signed_in,
       time_in     |-> r.time_in,
       time_out    |-> r.time_out,
       hours       |-> h,
       ot_hours    |-> OtHours(h)]

\* st.info("No attendance for this month.")
NoAttendanceInfo == [kind |-> "info", rows |-> <<>>]

\* app.py reports_page, "Attendance Summary", the daily records
AttendanceSummary(ws, ledger, year, month, rolled) ==
  LET att  == WithClock(ReportSelection(ws, ledger, year, month), rolled)
      rows == ReportOrder(att)
  IN  IF DOMAIN att = {} THEN NoAttendanceInfo
      ELSE IF \E r \in DOMAIN att : HoursOfApp(r).exc THEN Exception
      ELSE DataFrame([i \in 1..Len(rows) |-> DailyRecord(ws, rows[i])])

\* ---------------------------------------------------------- operations
NoReturn == [kind |-> "none", rows |-> <<>>]

\* the sample projects and assignments (project, worker) of init_db
SampleProjectIds == 1..3

SampleAssignments ==
  {<<1, 1>>, <<1, 2>>, <<1, 3>>, <<1, 4>>, <<1, 5>>, <<1, 6>>, <<2, 3>>, <<2, 5>>,
   <<2, 7>>, <<3, 1>>, <<3, 2>>, <<3, 4>>, <<3, 6>>}

\* st.session_state of the payroll page: the frame kept, and the selection
\* it was generated for
NoSession == [payroll_df |-> NoneValue, year |-> 0, month |-> 0, project_id |-> 0]

\* the database clients that may hold a connection open
Clients == {1, 2}

\* a client with no connection open: db is the database it connects to,
\* "sqlite" (app.py get_connection) or "postgres" (db.py get_conn); the other
\* fields are those of the transaction it runs once it has opened one: the
\* rows its DELETE found, the rows it has deleted and inserted, uncommitted
NoTransaction ==
  [pc |-> "closed", db |-> "sqlite", worker_id |-> 0, project_id |-> 0,
   att_date |-> <<0, 0, 0>>, present |-> 0, time_in |-> None, time_out |-> None,
   snapshot |-> EmptyBag, deleted |-> EmptyBag, inserted |-> EmptyBag]

NoConnections == [c \in Clients |-> NoTransaction]

\* the tables besides workers and attendance as init_db leaves them, for the
\* workers ids of the directory at hand; no page opened, no connection open
AsSeeded(ids) ==
  /\ projects = SampleProjectIds
  /\ project_workers = {a \in SampleAssignments : a[2] \in ids}
  /\ worker_seq = 7
  /\ session_state = NoSession
  /\ connections = NoConnections

\* the operation just executed and its arguments
\* clock_in, clock_out: the <<hour, minute>> of the time widgets whose
\* strftime the call was given, when it was given one
\* midnight, rolled: whether, and in the call for which row, the day changed
\* between the two date.today() of _hours_between
NoClock == <<0, 0>>

Call(name, w, p, d, present, ti, to, year, month) ==
  [name |-> name, worker_id |-> w, project_id |-> p, att_date |-> d,
   present |-> present, time_in |-> ti, time_out |-> to,
   year |-> year, month |-> month, clock_in |-> NoClock, clock_out |-> NoClock,
   rolled |-> NoRecord, midnight |-> FALSE, touched |-> {}]

\* the value a call of hours_between hands back
Float(h) == IF h.exc THEN Exception ELSE [kind |-> "float", rows |-> <<h.val>>]

NoDate == <<0, 0, 0>>

Start == Call("init_db", 0, NoProject, NoDate, 0, None, None, 0, 0)

\* app.py toggle_attendance
ToggleAttendance(w, p, d, present, ti, to) ==
  /\ attendance' = ReplaceAttendance(attendance, w, p, d, present, ti, to)
  /\ op' = Call("toggle_attendance", w, p, d, present, ti, to, 0, 0)
  /\ ret' = NoReturn
  /\ UNCHANGED <<workers, rest>>

\* db.py mark_attendance
MarkAttendance(w, p, d, present, ti, to) ==
  /\ attendance' = ReplaceAttendance(attendance, w, p, d, present, ti, to)
  /\ op' = Call("mark_attendance", w, p, d, present, ti, to, 0, 0)
  /\ ret' = NoReturn
  /\ UNCHANGED <<workers, rest>>

\* a payroll call that keeps what it selected as the attendance table
PayrollAppKeepingSelection(year, month, project_id) ==
  /\ ret' = GenerateMonthlyPayrollApp(workers, attendance, year, month,
                                      project_id, NoRecord)
  /\ op' = Call("payroll_app", 0, project_id, NoDate, 0, None, None, year, month)
  /\ attendance' = AttendanceInRange(attendance, MonthStart(year, month),
                                     MonthEndApp(year, month))
  /\ UNCHANGED <<workers, rest>>

\* a call of app.py generate_monthly_payroll
PayrollAppReadUncommitted(year, month, project_id) ==
  LET dirty == BagUnion({attendance} \cup {connections[c].inserted : c \in Clients})
  IN  /\ \E rolled \in {NoRecord} \cup
             ClockReaders(AttendanceInRange(dirty, MonthStart(year, month),
                                            MonthEndApp(year, month))) :
           /\ ret' = GenerateMonthlyPayrollApp(workers, dirty, year, month,
                                               project_id, rolled)
           /\ op' = [Call("payroll_app", 0, project_id, NoDate, 0, None, None, year, month)
                       EXCEPT !.rolled = rolled]
      /\ UNCHANGED <<workers, attendance, rest>>

\* a call of app.py generate_monthly_payroll; its SELECT reads the committed
\* table
PayrollApp(year, month, project_id) ==
  /\ \E rolled \in {NoRecord} \cup
         ClockReaders(AttendanceInRange(attendance, MonthStart(year, month),
                                        MonthEndApp(year, month))) :
       /\ ret' = GenerateMonthlyPayrollApp(workers, attendance, year, month,
                                           project_id, rolled)
       /\ op' = [Call("payroll_app", 0, project_id, NoDate, 0, None, None, year, month)
                   EXCEPT !.rolled = rolled]
  /\ UNCHANGED <<workers, attendance, rest>>

\* a call of core.py generate_monthly_payroll
PayrollCore(year, month, project_id) ==
  /\ ret' = GenerateMonthlyPayrollCore(workers, attendance, year, month, project_id)
  /\ op' = Call("payroll_core", 0, project_id, NoDate, 0, None, None, year, month)
  /\ UNCHANGED <<workers, attendance, rest>>

\* app.py reports_page showing the attendance summary of a month
ReportsPage(year, month) ==
  /\ \E rolled \in {NoRecord} \cup
         ClockReaders(ReportSelection(workers, attendance, year, month)) :
       /\ ret' = AttendanceSummary(workers, attendance, year, month, rolled)
       /\ op' = [Call("reports_page", 0, NoProject, NoDate, 0, None, None, year, month)
                   EXCEPT !.rolled = rolled]
  /\ UNCHANGED <<workers, attendance, rest>>

\* the arguments a call of hours_between is about to get
HoursArgs(ci, co, ti, to) ==
  [Call("arguments", 0, NoProject, NoDate, 0, ti, to, 0, 0)
     EXCEPT !.clock_in = ci, !.clock_out = co]

\* a call of app.py _hours_between on the arguments at hand
CallHoursBetweenApp ==
  /\ \E midnight \in {FALSE} \cup {ReadsClock(op.time_in, op.time_out)} :
       /\ ret' = Float(HoursBetweenApp(op.time_in, op.time_out, midnight))
       /\ op' = [op EXCEPT !.name = "hours_between_app", !.midnight = midnight]
  /\ UNCHANGED <<workers, attendance, rest>>

\* a call of core.py hours_between on the arguments at hand
CallHoursBetweenCore ==
  /\ ret' = Float(HoursBetweenCore(op.time_in, op.time_out))
  /\ op' = [op EXCEPT !.name = "hours_between_core", !.midnight = FALSE]
  /\ UNCHANGED <<workers, attendance, rest>>

\* ------------------------------------------------- the seeded application
\* the day the application starts (TODAY = date.today())
TODAY == <<2024, 3, 1>>

\* days of sample attendance seeded, of the source's range(7)
SeedDays == 1

WorkerIds == {1, 2}

ProjectIds == {1, 2}

\* the dates the attendance forms are saved for
AttendanceDates == {TODAY, DayBefore(TODAY)}

\* the months payroll is asked for
PayrollMonths == {<<2024, 2>>, <<2024, 3>>}

Scopes == {NoProject} \cup ProjectIds

\* (time_in, time_out) as the forms submit them: strftime of a time widget
FormTimes == {<<Strftime(7, 0), Strftime(17, 30)>>}

\* the sample attendance rows of init_db for day d, i days ago
SeedRows(d, i) ==
  {AttRecord(1, 1, d, 1, Strftime(7, 0), Strftime(16, 30)),
   AttRecord(2, 1, d, 1, Strftime(7, 30), Strftime(17, 15)),
   AttRecord(3, 3, d, IF i # 3 THEN 1 ELSE 0, Strftime(8, 0), Strftime(18, 0))}

SeedAttendance ==
  SetToBag({r \in UNION {SeedRows(DaysAgo(TODAY, i), i) : i \in 0..(SeedDays - 1)} :
              r.worker_id \in WorkerIds})

Init ==
  /\ workers = {SampleWorker(i) : i \in WorkerIds}
  /\ attendance = SeedAttendance
  /\ op = Start
  /\ ret = NoReturn
  /\ AsSeeded(WorkerIds)

Next ==
  \/ \E w \in WorkerIds, p \in ProjectIds, d \in AttendanceDates,
        present \in {0, 1}, t \in FormTimes :
       ToggleAttendance(w, p, d, present, t[1], t[2])
  \/ \E w \in WorkerIds, p \in ProjectIds, d \in AttendanceDates,
        present \in {0, 1}, t \in FormTimes :
       MarkAttendance(w, p, d, present, t[1], t[2])
  \/ \E ym \in PayrollMonths, s \in Scopes : PayrollApp(ym[1], ym[2], s)
  \/ \E ym \in PayrollMonths, s \in Scopes : PayrollCore(ym[1], ym[2], s)

Spec == Init /\ [][Next]_vars

\* ------------------------------------------- a directory that shrinks
\* app.py database_page, a worker row removed in the employees editor: the
\* worker's attendance and the worker are deleted together
DeleteWorkerApp(w) ==
  /\ workers' = {x \in workers : x.id # w}
  /\ attendance' = BagFilter(attendance, {r \in DOMAIN attendance : r.worker_id # w})
  /\ project_workers' = {a \in project_workers : a[2] # w}
  /\ op' = Call("delete_worker_app", w, NoProject, NoDate, 0, None, None, 0, 0)
  /\ ret' = NoReturn
  /\ UNCHANGED <<projects, worker_seq, session_state, connections>>

\* the worker row deleted and nothing else: no cascade
DeleteWorkerDbNoCascade(w) ==
  /\ workers' = {x \in workers : x.id # w}
  /\ op' = Call("delete_worker_db", w, NoProject, NoDate, 0, None, None, 0, 0)
  /\ ret' = NoReturn
  /\ UNCHANGED <<attendance, rest>>

\* db.py delete_worker: the worker row, and by ON DELETE CASCADE (db.py 50-51,
\* 61-62) the attendance and assignments that reference it
DeleteWorkerDb(w) ==
  /\ workers' = {x \in workers : x.id # w}
  /\ attendance' = BagFilter(attendance, {r \in DOMAIN attendance : r.worker_id # w})
  /\ project_workers' = {a \in project_workers : a[2] # w}
  /\ op' = Call("delete_worker_db", w, NoProject, NoDate, 0, None, None, 0, 0)
  /\ ret' = NoReturn
  /\ UNCHANGED <<projects, worker_seq, session_state, connections>>

\* the pages list the workers of the directory: attendance is saved for
\* those, and any of them can be deleted
NextDirectory ==
  \/ \E w \in {x.id : x \in workers}, p \in ProjectIds, d \in AttendanceDates,
        present \in {0, 1}, t \in FormTimes :
       ToggleAttendance(w, p, d, present, t[1], t[2])
  \/ \E w \in {x.id : x \in workers}, p \in ProjectIds, d \in AttendanceDates,
        present \in {0, 1}, t \in FormTimes :
       MarkAttendance(w, p, d, present, t[1], t[2])
  \/ \E w \in {x.id : x \in workers} : DeleteWorkerApp(w)
  \/ \E w \in {x.id : x \in workers} : DeleteWorkerDb(w)
  \/ \E ym \in PayrollMonths, s \in Scopes : PayrollApp(ym[1], ym[2], s)
  \/ \E ym \in PayrollMonths, s \in Scopes : PayrollCore(ym[1], ym[2], s)

SpecDirectory == Init /\ [][NextDirectory]_vars

\* ------------------------------------------- deletions and references
\* app.py projects_page / database_page, a project row removed in the
\* editor: its assignments, its attendance and the project are deleted
DeleteProjectApp(p) ==
  /\ project_workers' = {a \in project_workers : a[1] # p}
  /\ attendance' = BagFilter(attendance, {r \in DOMAIN attendance : r.project_id # p})
  /\ projects' = projects \ {p}
  /\ op' = Call("delete_project_app", 0, p, NoDate, 0, None, None, 0, 0)
  /\ ret' = NoReturn
  /\ UNCHANGED <<workers, worker_seq, session_state, connections>>

\* db.py delete_project: the project row, and by ON DELETE CASCADE the
\* assignments and attendance that reference it
DeleteProjectDb(p) ==
  /\ projects' = projects \ {p}
  /\ project_workers' = {a \in project_workers : a[1] # p}
  /\ attendance' = BagFilter(attendance, {r \in DOMAIN attendance : r.project_id # p})
  /\ op' = Call("delete_project_db", 0, p, NoDate, 0, None, None, 0, 0)
  /\ ret' = NoReturn
  /\ UNCHANGED <<workers, worker_seq, session_state, connections>>

\* the attendance forms offer the workers and projects that exist; any
\* worker and any project can be deleted
NextIntegrity ==
  \/ \E w \in {x.id : x \in workers}, p \in projects, present \in {0, 1}, t \in FormTimes :
       ToggleAttendance(w, p, TODAY, present, t[1], t[2])
  \/ \E w \in {x.id : x \in workers}, p \in projects, present \in {0, 1}, t \in FormTimes :
       MarkAttendance(w, p, TODAY, present, t[1], t[2])
  \/ \E w \in {x.id : x \in workers} : DeleteWorkerApp(w)
  \/ \E w \in {x.id : x \in workers} : DeleteWorkerDb(w)
  \/ \E p \in projects : DeleteProjectApp(p)
  \/ \E p \in projects : DeleteProjectDb(p)

SpecIntegrity == Init /\ [][NextIntegrity]_vars

\* ------------------------------------------- the payroll page
\* what payroll_page keeps in st.session_state.payroll_df for the result df
\* of generate_monthly_payroll: None for None or an empty frame
KeptFrame(df) == IF df.kind # "DataFrame" \/ df.rows = <<>> THEN NoneValue ELSE df

\* the session after "Generate Payroll" got df for the selection: unchanged
\* when the engine raised
SessionAfter(df, year, month, project_id) ==
  IF df.kind = "Exception" THEN session_state
  ELSE [payroll_df |-> KeptFrame(df), year |-> year, month |-> month,
        project_id |-> project_id]

\* one run of app.py payroll_page with the widgets at (year, month,
\* project_id): a click on "Generate Payroll" computes the payroll of the
\* selection and keeps it in the session (an exception of the engine ends
\* the run); then the frame the session holds, if any, is shown as table,
\* total and CSV under the label of the widgets' selection.  ret is what is
\* shown, op.year, op.month and op.project_id the label.
PayrollPage(year, month, project_id, clicked) ==
  /\ IF clicked
     THEN \E rolled \in {NoRecord} \cup
               ClockReaders(AttendanceInRange(attendance, MonthStart(year, month),
                                              MonthEndApp(year, month))) :
            /\ session_state' =
                 SessionAfter(GenerateMonthlyPayrollApp(workers, attendance, year,
                                                        month, project_id, rolled),
                              year, month, project_id)
            /\ ret' = IF GenerateMonthlyPayrollApp(workers, attendance, year, month,
                                                   project_id, rolled).kind = "Exception"
                      THEN Exception
                      ELSE IF session_state'.payroll_df.kind = "DataFrame"
                           THEN session_state'.payroll_df
                           ELSE NoReturn
     ELSE /\ session_state' = session_state
          /\ ret' = IF session_state.payroll_df.kind = "DataFrame"
                    THEN session_state.payroll_df
                    ELSE NoReturn
  /\ op' = Call("payroll_page", 0, project_id, NoDate, IF clicked THEN 1 ELSE 0,
                None, None, year, month)
  /\ UNCHANGED <<workers, attendance, projects, project_workers, worker_seq,
                 connections>>

\* runs of the payroll page, and today's attendance of worker 1 saved on
\* the attendance page between them
NextPayrollPage ==
  \/ \E ym \in PayrollMonths, s \in Scopes, clicked \in BOOLEAN :
       PayrollPage(ym[1], ym[2], s, clicked)
  \/ \E p \in ProjectIds, present \in {0, 1}, t \in FormTimes :
       ToggleAttendance(1, p, TODAY, present, t[1], t[2])

SpecPayrollPage == Init /\ [][NextPayrollPage]_vars

\* ------------------------------------------- adding employees
\* Worker codes are "NPS-W" and a number of four digits; the model keeps the
\* number.
\* app.py generate_next_worker_code over the committed workers table
GenerateNextWorkerCode(ws) ==
  IF ws = {} THEN 1
  ELSE (CHOOSE m \in {w.worker_code : w \in ws} :
          \A w \in ws : w.worker_code <= m) + 1

\* the rows the table gets for k new employees with the codes of `codes`,
\* their ids from the table's sequence
NewWorkers(k, codes) ==
  {[id |-> worker_seq + i, worker_code |-> codes[i], salary |-> SampleSalary[3]] :
     i \in 1..k}

\* the most employees added to the seeded directory
MaxAdded == 3

\* app.py sidebar "Save Employee": the next code, then the INSERT
SidebarAddEmployee ==
  /\ worker_seq < Len(SampleSalary) + MaxAdded
  /\ workers' = workers \cup NewWorkers(1, <<GenerateNextWorkerCode(workers)>>)
  /\ worker_seq' = worker_seq + 1
  /\ op' = Call("sidebar_add_employee", worker_seq + 1, NoProject, NoDate, 0,
                None, None, 0, 0)
  /\ ret' = NoReturn
  /\ UNCHANGED <<attendance, projects, project_workers, session_state, connections>>

\* app.py database_page "Save Employees Database" with k new rows whose
\* Worker ID cell is blank and the rows of `gone` removed from the table
\* editor: each new row gets generate_next_worker_code(), which reads the
\* table through a connection of its own and so without the rows this save
\* has inserted and not committed; then the rows gone are deleted with their
\* assignments and attendance, and all is committed
SaveEmployeesDatabase(k, gone) ==
  /\ worker_seq + k <= Len(SampleSalary) + MaxAdded
  /\ gone \subseteq {w.id : w \in workers}
  /\ workers' = {w \in workers : w.id \notin gone}
                  \cup NewWorkers(k, [i \in 1..k |-> GenerateNextWorkerCode(workers)])
  /\ worker_seq' = worker_seq + k
  /\ attendance' = BagFilter(attendance,
                             {r \in DOMAIN attendance : r.worker_id \notin gone})
  /\ project_workers' = {a \in project_workers : a[2] \notin gone}
  /\ op' = [Call("save_employees_database", 0, NoProject, NoDate, k, None, None, 0, 0)
              EXCEPT !.touched = gone]
  /\ ret' = NoReturn
  /\ UNCHANGED <<projects, session_state, connections>>

\* ui_pages.py page_employees "Save New Employee": the code is the number of
\* workers listed plus one, then db.py add_worker
AddEmployeeForm ==
  /\ worker_seq < Len(SampleSalary) + MaxAdded
  /\ workers' = workers \cup NewWorkers(1, <<Cardinality(workers) + 1>>)
  /\ worker_seq' = worker_seq + 1
  /\ op' = Call("add_employee_form", worker_seq + 1, NoProject, NoDate, 0,
                None, None, 0, 0)
  /\ ret' = NoReturn
  /\ UNCHANGED <<attendance, projects, project_workers, session_state, connections>>

NextEmployees ==
  \/ SidebarAddEmployee
  \/ \E k \in 0..2 : \E gone \in SUBSET {w.id : w \in workers} :
       SaveEmployeesDatabase(k, gone)
  \/ AddEmployeeForm
  \/ \E w \in {x.id : x \in workers} : DeleteWorkerApp(w)
  \/ \E w \in {x.id : x \in workers} : DeleteWorkerDb(w)

SpecEmployees == Init /\ [][NextEmployees]_vars

\* ------------------------------------------- the attendance forms
\* app.py get_today_attendance: signed_in of the worker's record of today on
\* the project, 0 when there is none
GetTodayAttendance(att, w, p) ==
  LET found == {r \in DOMAIN att :
                  r.worker_id = w /\ r.project_id = p /\ r.att_date = TODAY}
  IN  IF found = {} THEN 0 ELSE (CHOOSE r \in found : TRUE).signed_in

\* the workers the form of project p lists: those assigned to it
ListedOn(p) == {w.id : w \in {x \in workers : <<p, x.id>> \in project_workers}}

\* the table after the form's loop: an entry operation for every id of ids,
\* on project proj[w], present[w], with the times of times[w]
RECURSIVE SaveEach(_, _, _, _, _)
SaveEach(att, ids, proj, present, times) ==
  IF ids = {} THEN att
  ELSE LET w == CHOOSE x \in ids : TRUE
       IN  SaveEach(ReplaceAttendance(att, w, proj[w], TODAY, present[w],
                                      times[w][1], times[w][2]),
                    ids \ {w}, proj, present, times)

\* app.py workers_page, "Save Attendance (Present only)" of project p's form:
\* every box starts at get_today_attendance of the worker on p, the user
\* flipped those of `touched`, and toggle_attendance runs for every worker
\* listed with the box's value and 07:00 to 16:00
SaveProjectAttendance(p, touched) ==
  LET listed  == ListedOn(p)
      box     == [w \in listed |->
                    LET shown == GetTodayAttendance(attendance, w, p)
                    IN  IF w \in touched THEN (IF shown # 0 THEN 0 ELSE 1)
                        ELSE (IF shown # 0 THEN 1 ELSE 0)]
  IN  /\ p \in projects
      /\ listed # {}
      /\ touched \subseteq listed
      /\ attendance' = SaveEach(attendance, listed, [w \in listed |-> p], box,
                                [w \in listed |-> <<Strftime(7, 0), Strftime(16, 0)>>])
      /\ op' = [Call("save_project_attendance", 0, p, TODAY, 0,
                     Strftime(7, 0), Strftime(16, 0), 0, 0)
                  EXCEPT !.touched = touched]
      /\ ret' = NoReturn
      /\ UNCHANGED <<workers, rest>>

\* ui_pages.py page_attendance, "Save Attendance" of the daily form: every
\* worker's box starts unticked, the project at the first of the list and the
\* times at 07:00 and 16:00; the user ticked the boxes of `touched` and picked
\* their projects and times, and mark_attendance runs for every worker
SaveDailyAttendance(touched, pick, t) ==
  LET listed == {w.id : w \in workers}
      first  == CHOOSE q \in projects : \A o \in projects : q <= o
  IN  /\ workers # {} /\ projects # {}
      /\ touched \subseteq listed
      /\ attendance' =
           SaveEach(attendance, listed,
                    [w \in listed |-> IF w \in touched THEN pick[w] ELSE first],
                    [w \in listed |-> IF w \in touched THEN 1 ELSE 0],
                    [w \in listed |-> IF w \in touched THEN t
                                      ELSE <<Strftime(7, 0), Strftime(16, 0)>>])
      /\ op' = [Call("save_daily_attendance", 0, NoProject, TODAY, 0, t[1], t[2], 0, 0)
                  EXCEPT !.touched = touched]
      /\ ret' = NoReturn
      /\ UNCHANGED <<workers, rest>>

\* the times a form's record can carry: the project form's 07:00 to 16:00
\* and what the daily form's time widgets were set to
SavedTimes == FormTimes \cup {<<Strftime(7, 0), Strftime(16, 0)>>}

\* today's ledger as earlier saves of the forms left it: for each worker no
\* record, or one present record on some project
InitForms ==
  /\ workers = {SampleWorker(i) : i \in WorkerIds}
  /\ \E today \in SUBSET WorkerIds :
       \E pick \in [today -> SampleProjectIds], t \in [today -> SavedTimes] :
         attendance = SetToBag({AttRecord(w, pick[w], TODAY, 1, t[w][1], t[w][2]) :
                                  w \in today})
  /\ op = Start
  /\ ret = NoReturn
  /\ AsSeeded(WorkerIds)

NextForms ==
  \/ \E p \in projects : \E touched \in SUBSET ListedOn(p) :
       SaveProjectAttendance(p, touched)
  \/ \E touched \in SUBSET WorkerIds : \E pick \in [touched -> projects],
        t \in SavedTimes :
       SaveDailyAttendance(touched, pick, t)

SpecForms == InitForms /\ [][NextForms]_vars

\* ------------------------------------------- concurrent clients
\* toggle_attendance (SQLite) and mark_attendance (Postgres) statement by
\* statement: connect, DELETE, INSERT if present, commit.  `attendance` is
\* the committed table; what a client has deleted and inserted is its own
\* until it commits.
InFlight(c) == connections[c].pc # "closed"

\* the committed rows of (w, d)
RowsOfDay(w, d) ==
  BagFilter(attendance, {r \in DOMAIN attendance : r.worker_id = w /\ r.att_date = d})

\* the DELETE statement of client c starts: it sees the committed rows of
\* (w, d).  On SQLite the first write takes the database's write lock, which
\* no other connection may hold.
BeginDelete(c, w, p, d, present, ti, to) ==
  /\ ~InFlight(c)
  /\ connections[c].db = "sqlite" =>
       \A o \in Clients \ {c} : ~InFlight(o)
  /\ connections' = [connections EXCEPT ![c] =
       [@ EXCEPT !.pc = "deleting", !.worker_id = w, !.project_id = p,
                 !.att_date = d, !.present = present, !.time_in = ti,
                 !.time_out = to, !.snapshot = RowsOfDay(w, d)]]
  /\ op' = Call("begin_delete", w, p, d, present, ti, to, 0, 0)
  /\ ret' = NoReturn
  /\ UNCHANGED <<workers, attendance, projects, project_workers, worker_seq,
                 session_state>>

\* the DELETE completes: it waits while another client holds one of its
\* rows deleted and uncommitted, then deletes the rows it saw that are still
\* there
FinishDelete(c) ==
  /\ connections[c].pc = "deleting"
  /\ \A o \in Clients \ {c} :
       DOMAIN connections[o].deleted \cap DOMAIN connections[c].snapshot = {}
  /\ connections' = [connections EXCEPT ![c] =
       [@ EXCEPT !.pc = IF connections[c].present # 0 THEN "deleted" ELSE "inserted",
                 !.deleted = connections[c].snapshot]]
  /\ op' = Call("finish_delete", connections[c].worker_id, connections[c].project_id,
                connections[c].att_date, connections[c].present,
                connections[c].time_in, connections[c].time_out, 0, 0)
  /\ ret' = NoReturn
  /\ UNCHANGED <<workers, attendance, projects, project_workers, worker_seq,
                 session_state>>

\* the INSERT of the present record
InsertPresent(c) ==
  /\ connections[c].pc = "deleted"
  /\ connections' = [connections EXCEPT ![c] =
       [@ EXCEPT !.pc = "inserted",
                 !.inserted = SetToBag({AttRecord(connections[c].worker_id,
                                                  connections[c].project_id,
                                                  connections[c].att_date, 1,
                                                  connections[c].time_in,
                                                  connections[c].time_out)})]]
  /\ op' = Call("insert", connections[c].worker_id, connections[c].project_id,
                connections[c].att_date, connections[c].present,
                connections[c].time_in, connections[c].time_out, 0, 0)
  /\ ret' = NoReturn
  /\ UNCHANGED <<workers, attendance, projects, project_workers, worker_seq,
                 session_state>>

\* conn.commit(); conn.close(): the client's deletions and insertion reach
\* the table at once; a DELETE of another client still waiting on the rows
\* now gone will skip them
Commit(c) ==
  /\ connections[c].pc = "inserted"
  /\ attendance' = (attendance (-) connections[c].deleted) (+) connections[c].inserted
  /\ connections' =
       [o \in Clients |->
          IF o = c THEN [NoTransaction EXCEPT !.db = connections[c].db]
          ELSE [connections[o] EXCEPT
                  !.snapshot = connections[o].snapshot (-) connections[c].deleted]]
  /\ op' = Call(IF connections[c].db = "sqlite" THEN "toggle_attendance"
                ELSE "mark_attendance",
                connections[c].worker_id, connections[c].project_id,
                connections[c].att_date, connections[c].present,
                connections[c].time_in, connections[c].time_out, 0, 0)
  /\ ret' = NoReturn
  /\ UNCHANGED <<workers, projects, project_workers, worker_seq, session_state>>

\* the most rows the ledgers checked hold
MaxRecords == 3

\* today's form of worker 1, saved by two clients at once while the table
\* holds fewer than MaxRecords rows, and the month's company payroll of the
\* same deployment run in between
ConcurrentTimes ==
  {<<Strftime(7, 0), Strftime(16, 0)>>, <<Strftime(7, 0), Strftime(17, 30)>>}

InitConcurrent ==
  /\ workers = {SampleWorker(i) : i \in WorkerIds}
  /\ attendance = SeedAttendance
  /\ op = Start
  /\ ret = NoReturn
  /\ projects = SampleProjectIds
  /\ project_workers = {a \in SampleAssignments : a[2] \in WorkerIds}
  /\ worker_seq = 7
  /\ session_state = NoSession
  /\ \E db \in {"sqlite", "postgres"} :
       connections = [c \in Clients |-> [NoTransaction EXCEPT !.db = db]]

NextConcurrent ==
  \/ \E c \in Clients, p \in ProjectIds, present \in {0, 1}, t \in ConcurrentTimes :
       /\ present = 1 => BagCardinality(attendance) < MaxRecords
       /\ BeginDelete(c, 1, p, TODAY, present, t[1], t[2])
  \/ \E c \in Clients : FinishDelete(c)
  \/ \E c \in Clients : InsertPresent(c)
  \/ \E c \in Clients : Commit(c)
  \/ /\ \A c \in Clients : connections[c].db = "sqlite"
     /\ PayrollApp(TODAY[1], TODAY[2], NoProject)
  \/ /\ \A c \in Clients : connections[c].db = "postgres"
     /\ PayrollCore(TODAY[1], TODAY[2], NoProject)

SpecConcurrent == InitConcurrent /\ [][NextConcurrent]_vars

\* ------------------------------------------- payroll over given ledgers
\* Ledgers the attendance forms can produce in June 2024 (30 days): at most
\* one present record per (worker, date) of Cells, at most MaxRecords records.
JuneDates == {<<2024, 6, 1>>, <<2024, 6, 15>>, <<2024, 6, 30>>}

\* days of 9, 9.5, 10 and 4 hours
JuneTimes ==
  {<<Strftime(7, 0), Strftime(16, 0)>>, <<Strftime(7, 0), Strftime(16, 30)>>,
   <<Strftime(7, 0), Strftime(17, 0)>>, <<Strftime(7, 0), Strftime(11, 0)>>}

NoEntry == <<NoProject, <<None, None>>>>

Entries == {NoEntry} \cup (ProjectIds \X JuneTimes)

\* the (worker, date) cells these ledgers fill: any June date of worker 1,
\* the first of worker 2
Cells == ({1} \X JuneDates) \cup {<<2, <<2024, 6, 1>>>>}

\* the ledger in which cell c holds the record entry[c]
LedgerOf(entry) ==
  SetToBag({AttRecord(c[1], entry[c][1], c[2], 1, entry[c][2][1], entry[c][2][2]) :
              c \in {x \in Cells : entry[x] # NoEntry}})

InitPayroll ==
  /\ workers = {SampleWorker(i) : i \in WorkerIds}
  /\ \E entry \in [Cells -> Entries] :
       /\ Cardinality({c \in Cells : entry[c] # NoEntry}) <= MaxRecords
       /\ attendance = LedgerOf(entry)
  /\ op = Start
  /\ ret = NoReturn
  /\ AsSeeded(WorkerIds)

\* one payroll call per ledger: the calls change no table, so a second call
\* finds what the first found
NextPayroll ==
  \/ op = Start /\ \E s \in Scopes : PayrollApp(2024, 6, s)
  \/ op = Start /\ \E s \in Scopes : PayrollCore(2024, 6, s)

SpecPayroll == InitPayroll /\ [][NextPayroll]_vars

\* ------------------------------------------- payroll around month ends
\* Ledgers with records on the days around the turn of a month and of the
\* year, marked present or, like the seeded absence, not present.
BoundaryDates == {<<2024, 11, 30>>, <<2024, 12, 1>>, <<2024, 12, 31>>, <<2025, 1, 1>>}

BoundaryMonths == {<<2024, 11>>, <<2024, 12>>, <<2025, 1>>}

Marks == {"none", "absent", "present"}

\* worker 1's record of date d on project 1, from 07:00 to 16:30
MarkedRecord(d, mark) ==
  AttRecord(1, 1, d, IF mark = "present" THEN 1 ELSE 0, Strftime(7, 0), Strftime(16, 30))

InitMonths ==
  /\ workers = {SampleWorker(i) : i \in WorkerIds}
  /\ \E mark \in [BoundaryDates -> Marks] :
       attendance =
         SetToBag({MarkedRecord(d, mark[d]) : d \in {x \in BoundaryDates : mark[x] # "none"}}
                  \cup {AttRecord(2, 2, <<2024, 12, 1>>, 1, Strftime(7, 0), Strftime(16, 0))})
  /\ op = Start
  /\ ret = NoReturn
  /\ AsSeeded(WorkerIds)

NextMonths ==
  \/ \E ym \in BoundaryMonths, s \in Scopes : PayrollApp(ym[1], ym[2], s)
  \/ \E ym \in BoundaryMonths, s \in Scopes : PayrollCore(ym[1], ym[2], s)

SpecMonths == InitMonths /\ [][NextMonths]_vars

\* ------------------------------------------- reports over the sample data
\* The database as init_db seeds it: the seven sample workers and the week
\* of sample attendance, with worker 3 marked absent three days ago.  The
\* attendance form is saved for that worker and day; reports and company
\* payroll are shown for the two months the week spans.
SampleDays == 7

SampleWorkerIds == 1..7

SampleAttendance ==
  SetToBag(UNION {SeedRows(DaysAgo(TODAY, i), i) : i \in 0..(SampleDays - 1)})

AbsentDay == DaysAgo(TODAY, 3)

InitReports ==
  /\ workers = {SampleWorker(i) : i \in SampleWorkerIds}
  /\ attendance = SampleAttendance
  /\ op = Start
  /\ ret = NoReturn
  /\ AsSeeded(SampleWorkerIds)

NextReports ==
  \/ \E p \in ProjectIds, present \in {0, 1}, t \in FormTimes :
       ToggleAttendance(3, p, AbsentDay, present, t[1], t[2])
  \/ \E p \in ProjectIds, present \in {0, 1}, t \in FormTimes :
       MarkAttendance(3, p, AbsentDay, present, t[1], t[2])
  \/ \E ym \in PayrollMonths : ReportsPage(ym[1], ym[2])
  \/ \E ym \in PayrollMonths : PayrollApp(ym[1], ym[2], NoProject)
  \/ \E ym \in PayrollMonths : PayrollCore(ym[1], ym[2], NoProject)

SpecReports == InitReports /\ [][NextReports]_vars

\* ------------------------------------- worked hours of the forms' times
\* the time widgets' values tried: time_in at every hour and these minutes,
\* time_out at every minute of the day
ClockMinutes == {0, 1, 15, 30, 45, 59}

ClockIns == (0..23) \X ClockMinutes

ClockOuts == (0..23) \X (0..59)

InitTimes ==
  /\ workers = {SampleWorker(i) : i \in WorkerIds}
  /\ attendance = EmptyBag
  /\ \E ci \in ClockIns, co \in ClockOuts :
       op = HoursArgs(ci, co, Strftime(ci[1], ci[2]), Strftime(co[1], co[2]))
  /\ ret = NoReturn
  /\ AsSeeded(WorkerIds)

NextTimes == CallHoursBetweenApp \/ CallHoursBetweenCore

SpecTimes == InitTimes /\ [][NextTimes]_vars

\* ------------------------------------------ worked hours of stored texts
\* time_in and time_out are unconstrained TEXT columns.  Texts strptime
\* rejects ...
MalformedTexts ==
  {<<"2", "4", ":", "0", "0">>, <<"0", "7", ":", "6", "0">>, <<"0", "7", "0", "0">>,
   <<"0", "7", ":", "0", "0", ":", "0", "0">>, <<"a", "b", ":", "c", "d">>,
   <<" ", "7", ":", "0", "0">>, <<"7", "p", "m">>}

\* ... and texts it accepts, each with the minute of the day it means
WellFormedTexts ==
  {<<<<"0", "7", ":", "0", "0">>, 420>>, <<<<"1", "6", ":", "3", "0">>, 990>>,
   <<<<"7", ":", "5">>, 425>>, <<<<"2", "3", ":", "5", "9">>, 1439>>}

MissingTexts == {None, <<>>}

TimeTexts == MalformedTexts \cup MissingTexts \cup {t[1] : t \in WellFormedTexts}

\* (time_in, time_out) of the first worker's record in the ledgers below
OddPairs ==
  {<<None, None>>, <<Strftime(7, 0), None>>, <<Strftime(17, 0), Strftime(7, 0)>>,
   <<Strftime(7, 0), <<"0", "7", ":", "6", "0">>>>, <<<<"7", "p", "m">>, Strftime(16, 0)>>}

InitHours ==
  /\ workers = {SampleWorker(i) : i \in WorkerIds}
  /\ \E t \in OddPairs :
       attendance = SetToBag({AttRecord(1, 1, TODAY, 1, t[1], t[2]),
                              AttRecord(2, 1, TODAY, 1, Strftime(7, 0), Strftime(17, 30))})
  /\ \E ti \in TimeTexts, to \in TimeTexts : op = HoursArgs(NoClock, NoClock, ti, to)
  /\ ret = NoReturn
  /\ AsSeeded(WorkerIds)

NextHours ==
  \/ CallHoursBetweenApp
  \/ CallHoursBetweenCore
  \/ \E s \in Scopes : PayrollApp(TODAY[1], TODAY[2], s)
  \/ \E s \in Scopes : PayrollCore(TODAY[1], TODAY[2], s)

SpecHours == InitHours /\ [][NextHours]_vars

\* ------------------------------------------- payroll over full months
\* Ledgers of a worker present every day of a month but for some days off:
\* months of 29, 30 and 31 days, 9-hour and 10-hour days.
FullMonths == {<<2024, 2>>, <<2024, 6>>, <<2024, 12>>, <<2025, 1>>}

\* the days of the month the worker may have been off
DaysOff == {1, 15, 28}

FullMonthLedger(ym, off, t) ==
  SetToBag({AttRecord(1, 1, <<ym[1], ym[2], d>>, 1, t[1], t[2]) :
              d \in (1..DaysInMonthTable(ym[1], ym[2])) \ off})

InitFullMonth ==
  /\ workers = {SampleWorker(i) : i \in WorkerIds}
  /\ \E ym \in FullMonths, off \in SUBSET DaysOff,
        t \in {<<Strftime(7, 0), Strftime(16, 0)>>, <<Strftime(7, 0), Strftime(17, 0)>>} :
       attendance = FullMonthLedger(ym, off, t)
  /\ op = Start
  /\ ret = NoReturn
  /\ AsSeeded(WorkerIds)

NextFullMonth ==
  /\ op = Start
  /\ \E ym \in FullMonths :
       PayrollApp(ym[1], ym[2], NoProject) \/ PayrollCore(ym[1], ym[2], NoProject)

SpecFullMonth == InitFullMonth /\ [][NextFullMonth]_vars

\* ================================================================ claims
IsPayroll == op.name \in {"payroll_app", "payroll_core"}

IsEntry == op.name \in {"toggle_attendance", "mark_attendance"}

IsHours == op.name \in {"hours_between_app", "hours_between_core"}

\* the present records dated in the month of the payroll call
PresentInMonth ==
  {r \in DOMAIN attendance :
     r.signed_in = 1 /\ r.att_date[1] = op.year /\ r.att_date[2] = op.month}

PresentOf(w) == {r \in PresentInMonth : r.worker_id = w}

PresentOn(w, p) == {r \in PresentOf(w) : r.project_id = p}

\* the minutes from time_in to time_out of record r, as its texts read
MinutesApart(r) ==
  LET i == Strptime(r.time_in)
      o == Strptime(r.time_out)
  IN  (o.h * 60 + o.m) - (i.h * 60 + i.m)

\* the minutes worked in record r: 0 when a time is missing or no HH:MM, or
\* time_out is not after time_in
WorkedMinutes(r) ==
  IF ReadsClock(r.time_in, r.time_out) /\ MinutesApart(r) > 0
  THEN MinutesApart(r) ELSE 0

\* the minutes app.py's run computed for record r: a day more when the day
\* changed during the record's call of _hours_between
ComputedMinutes(r) ==
  IF op.name = "payroll_app" /\ r = op.rolled /\ MinutesApart(r) + 1440 > 0
  THEN MinutesApart(r) + 1440
  ELSE WorkedMinutes(r)

\* the minutes worked in the records recs, summed
RECURSIVE TotalMinutes(_)
TotalMinutes(recs) ==
  IF recs = {} THEN 0
  ELSE LET r == CHOOSE x \in recs : TRUE
       IN  WorkedMinutes(r) + TotalMinutes(recs \ {r})

\* the minutes beyond 9 hours of each record of recs, summed
RECURSIVE ExcessMinutes(_)
ExcessMinutes(recs) ==
  IF recs = {} THEN 0
  ELSE LET r == CHOOSE x \in recs : TRUE
           m == WorkedMinutes(r)
       IN  (IF m > 540 THEN m - 540 ELSE 0) + ExcessMinutes(recs \ {r})

\* the same two sums over the minutes the run computed
RECURSIVE ComputedTotal(_)
ComputedTotal(recs) ==
  IF recs = {} THEN 0
  ELSE LET r == CHOOSE x \in recs : TRUE
       IN  ComputedMinutes(r) + ComputedTotal(recs \ {r})

RECURSIVE ComputedExcess(_)
ComputedExcess(recs) ==
  IF recs = {} THEN 0
  ELSE LET r == CHOOSE x \in recs : TRUE
           m == ComputedMinutes(r)
       IN  (IF m > 540 THEN m - 540 ELSE 0) + ComputedExcess(recs \ {r})

\* the hours worked in the records recs, and their overtime
ExactHours(recs) == Rat(TotalMinutes(recs), 60)

ExactOvertime(recs) == Rat(ExcessMinutes(recs), 60)

DaysOf(recs) == Cardinality({r.att_date : r \in recs})

RowsOf(w) == {i \in DOMAIN ret.rows : ret.rows[i].worker_code = w.worker_code}

Cents(c) == Rat(c, 100)

\* what the payroll formulas give for worker row `row` from the exact
\* aggregates: the rate, the base earned over `days` days, the overtime pay
FormulaRate(row) == Rat(row.salary, row.days_in_month * 9)

FormulaBase(row, days) == RMul(FromInt(row.salary), Rat(days, row.days_in_month))

FormulaOvertimePay(row, ot) == RMul(FormulaRate(row), ot)

\* C1: after a company-wide payroll, every row has hourly_rate =
\* salary / (days_in_month x 9), overtime_pay = hourly_rate x overtime_hours
\* x 1.0 and net_pay = base_earned + overtime_pay with base_earned = salary x
\* days_present / days_in_month, each rounded to 2 decimals; salary 5000,
\* 30 days, three days of 9.0, 9.5 and 10.0 hours give 18.52, 27.78, 527.78.
C1_CompanyWidePay ==
  (IsPayroll /\ op.project_id = NoProject /\ ret.kind = "DataFrame") =>
    \A w \in workers : \A i \in RowsOf(w) :
      LET row == ret.rows[i]
          otp == FormulaOvertimePay(row, ExactOvertime(PresentOf(w.id)))
      IN  /\ row.hourly_rate = Round2(FormulaRate(row))
          /\ row.overtime_pay = Round2(otp)
          /\ row.net_pay = Round2(RAdd(FormulaBase(row, DaysOf(PresentOf(w.id))), otp))
          /\ ( /\ row.salary = 5000 /\ row.days_in_month = 30
               /\ DaysOf(PresentOf(w.id)) = 3
               /\ ExactHours(PresentOf(w.id)) = Rat(57, 2)
               /\ ExactOvertime(PresentOf(w.id)) = Rat(3, 2)
               => /\ row.hourly_rate = Cents(1852)
                  /\ row.overtime_pay = Cents(2778)
                  /\ row.net_pay = Cents(52778) )

\* C2: after a per-project payroll, every row of a worker whose company-wide
\* hours are positive has base_share = base_earned_total x (hours on this
\* project / total_hours_all), rounded to 2 decimals; base_earned_total
\* 500.00, 28.5 hours of which 10 (1.0 overtime) on the project give
\* base_share 175.44, overtime_pay 18.52 and net_pay 193.96.
C2_ProjectBaseShare ==
  (IsPayroll /\ op.project_id # NoProject /\ ret.kind = "DataFrame") =>
    \A w \in workers : \A i \in RowsOf(w) :
      LET row   == ret.rows[i]
          all   == PresentOf(w.id)
          mine  == PresentOn(w.id, op.project_id)
          share == RMul(FormulaBase(row, DaysOf(all)),
                        RDiv(ExactHours(mine), ExactHours(all)))
      IN  ExactHours(all).n > 0 =>
            /\ "base_share" \in DOMAIN row
            /\ row.base_share = Round2(share)
            /\ ( /\ row.salary = 5000 /\ row.days_in_month = 30
                 /\ DaysOf(all) = 3 /\ ExactHours(all) = Rat(57, 2)
                 /\ ExactHours(mine) = FromInt(10)
                 /\ ExactOvertime(mine) = FromInt(1)
                 => /\ row.base_share = Cents(17544)
                    /\ row.overtime_pay = Cents(1852)
                    /\ row.net_pay = Cents(19396) )

\* the per-project payroll of the current month for project p, by the variant
\* that ran last
ProjectPayroll(p) ==
  IF op.name = "payroll_app"
  THEN GenerateMonthlyPayrollApp(workers, attendance, op.year, op.month, p,
                                 IF p = op.project_id THEN op.rolled ELSE NoRecord)
  ELSE GenerateMonthlyPayrollCore(workers, attendance, op.year, op.month, p)

\* the base pay a per-project row allocates to its project: app.py's
\* base_share column; core.py has no such column, its base is what net_pay
\* holds besides the overtime pay
BaseOfRow(row) ==
  IF "base_share" \in DOMAIN row THEN row.base_share
  ELSE RSubClamp(row.net_pay, row.overtime_pay)

\* the projects on which worker w has a present record in the month
ProjectsWorked(w) == {r.project_id : r \in PresentOf(w)}

\* the sum, over the projects ps, of the base allocated to worker w
RECURSIVE SumBase(_, _)
SumBase(w, ps) ==
  IF ps = {} THEN Zero
  ELSE LET p    == CHOOSE q \in ps : TRUE
           rows == ProjectPayroll(p).rows
           mine == {i \in DOMAIN rows : rows[i].worker_code = w.worker_code}
       IN  RAdd(IF mine = {} THEN Zero ELSE BaseOfRow(rows[CHOOSE i \in mine : TRUE]),
                SumBase(w, ps \ {p}))

\* |a - b| <= t
Within(a, b, t) == RLe(RSubClamp(a, b), t) /\ RLe(RSubClamp(b, a), t)

\* C3: for every worker with company-wide hours > 0 in the month, the sum of
\* the per-project base allocations over the projects the worker was present
\* on equals salary x days_present_all / days_in_month, within half a cent
\* of rounding per project.
C3_BaseShareConserved ==
  (IsPayroll /\ op.project_id # NoProject /\ ret.kind = "DataFrame") =>
    /\ ret = ProjectPayroll(op.project_id)
    /\ \A w \in workers :
         LET all == PresentOf(w.id)
             ps  == ProjectsWorked(w.id)
             dim == IF op.name = "payroll_app"
                    THEN DaysInMonthApp(op.year, op.month)
                    ELSE FIXED_DAYS_IN_MONTH
         IN  ExactHours(all).n > 0 =>
               Within(SumBase(w, ps),
                      RMul(FromInt(w.salary), Rat(DaysOf(all), dim)),
                      Rat(5 * Cardinality(ps), 1000))

\* a per-project payroll ran for a worker whose month is split over two
\* projects, and the row holds only part of the worker's base earnings
C3_SplitMonthReached ==
  /\ op.name = "payroll_app" /\ op.project_id # NoProject
  /\ ret.kind = "DataFrame"
  /\ \E w \in workers : \E i \in RowsOf(w) :
       /\ Cardinality(ProjectsWorked(w.id)) = 2
       /\ DaysOf(PresentOf(w.id)) = 3
       /\ ret.rows[i].base_share.n > 0
       /\ ~RLe(RMul(FromInt(w.salary), Rat(3, ret.rows[i].days_in_month)),
               ret.rows[i].base_share)
       /\ ~IsRounded2(RMul(RMul(FromInt(w.salary), Rat(3, ret.rows[i].days_in_month)),
                           RDiv(ExactHours(PresentOn(w.id, op.project_id)),
                                ExactHours(PresentOf(w.id)))))

\* the records of any kind dated in the month of the payroll call
RecordsInMonth ==
  {r \in DOMAIN attendance : r.att_date[1] = op.year /\ r.att_date[2] = op.month}

\* a payroll row with no days, no hours and no pay
ZeroValued(row) ==
  /\ row.days_present = 0
  /\ row.total_hours = Zero
  /\ row.overtime_hours = Zero
  /\ row.overtime_pay = Zero
  /\ row.net_pay = Zero

\* C4: when the ledger holds no record dated in the requested month, the
\* company-wide payroll returns exactly one zero-valued row per worker of the
\* directory and the per-project payroll of any project returns zero rows.
C4_EmptyMonth ==
  (IsPayroll /\ RecordsInMonth = {} /\ workers # {}) =>
    /\ ret.kind = "DataFrame"
    /\ IF op.project_id = NoProject
       THEN /\ Len(ret.rows) = Cardinality(workers)
            /\ \A w \in workers : Cardinality(RowsOf(w)) = 1
            /\ \A i \in DOMAIN ret.rows : ZeroValued(ret.rows[i])
       ELSE ret.rows = <<>>

\* C5: the per-project payroll of project P returns exactly one row for each
\* worker with at least one present record on P dated in the month, and no
\* row for any other worker.
C5_ProjectRows ==
  (IsPayroll /\ op.project_id # NoProject /\ workers # {}) =>
    /\ ret.kind = "DataFrame"
    /\ \A w \in workers :
         Cardinality(RowsOf(w)) =
           IF PresentOn(w.id, op.project_id) # {} THEN 1 ELSE 0
    /\ Len(ret.rows) =
         Cardinality({w \in workers : PresentOn(w.id, op.project_id) # {}})

\* C6: the company-wide payroll of a non-empty directory returns exactly one
\* row per worker, and the row of a worker with no present record in the
\* month has zero days, hours, overtime hours, overtime pay and net pay
\* (hence zero base earned), whatever the other workers' attendance.
C6_LeftJoin ==
  (IsPayroll /\ op.project_id = NoProject /\ workers # {}) =>
    /\ ret.kind = "DataFrame"
    /\ Len(ret.rows) = Cardinality(workers)
    /\ \A w \in workers :
         /\ Cardinality(RowsOf(w)) = 1
         /\ PresentOf(w.id) = {} =>
              \A i \in RowsOf(w) : ZeroValued(ret.rows[i])

\* a company-wide payroll ran over a month in which one worker was present
\* and another was not, and the absent one has a zero row
C6_AbsentWorkerReached ==
  /\ IsPayroll /\ op.project_id = NoProject
  /\ \E w, v \in workers :
       /\ PresentOf(w.id) = {} /\ PresentOf(v.id) # {}
       /\ \E i \in RowsOf(w) : ZeroValued(ret.rows[i])
       /\ \E i \in RowsOf(v) : ret.rows[i].days_present > 0

\* the number of ledger records of worker w dated d
RecordCount(w, d) ==
  BagCardinality(BagFilter(attendance,
     {r \in DOMAIN attendance : r.worker_id = w /\ r.att_date = d}))

\* C7: after any sequence of toggle_attendance / mark_attendance calls from
\* the seeded ledger, the ledger holds at most one record per (worker, date).
C7_OneRecordPerWorkerDate ==
  \A r \in DOMAIN attendance : RecordCount(r.worker_id, r.att_date) = 1

\* an entry call moved worker 1, seeded on project 1 today, to project 2
C7_OverwriteReached ==
  /\ IsEntry /\ op.present = 1
  /\ op.worker_id = 1 /\ op.att_date = TODAY /\ op.project_id = 2
  /\ RecordCount(1, TODAY) = 1
  /\ BagCardinality(attendance) >= 3

\* C8: after a call marking worker W present on project P for date D with
\* times (ti, to), the ledger's records for (W, D) are exactly one record, on
\* P with those times, whatever was recorded for (W, D) before; so no worker
\* is present on two projects on one date.
C8_LastWriteWins ==
  /\ (IsEntry /\ op.present = 1) =>
       BagFilter(attendance, {r \in DOMAIN attendance :
                    r.worker_id = op.worker_id /\ r.att_date = op.att_date})
       = SetToBag({AttRecord(op.worker_id, op.project_id, op.att_date, 1,
                             op.time_in, op.time_out)})
  /\ \A r, q \in DOMAIN attendance :
       (r.worker_id = q.worker_id /\ r.att_date = q.att_date
        /\ r.signed_in = 1 /\ q.signed_in = 1) => r.project_id = q.project_id

\* worker 2, seeded today on project 1 from 07:30 to 17:15, was marked
\* present on project 2 with the form's times
C8_SupersededReached ==
  /\ IsEntry /\ op.present = 1
  /\ op.worker_id = 2 /\ op.att_date = TODAY /\ op.project_id = 2
  /\ AttRecord(2, 2, TODAY, 1, Strftime(7, 0), Strftime(17, 30)) \in DOMAIN attendance
  /\ AttRecord(2, 1, TODAY, 1, Strftime(7, 30), Strftime(17, 15)) \notin DOMAIN attendance

\* the minute of the day of a time widget's value
MinuteOfDay(c) == c[1] * 60 + c[2]

\* C9: for every pair of valid HH:MM times with time_out >= time_in, both
\* worked-hours functions return exactly (time_out - time_in) in hours;
\* 07:00 to 16:30 is 9.5.
C9_ExactHours ==
  (IsHours /\ MinuteOfDay(op.clock_out) >= MinuteOfDay(op.clock_in)) =>
    /\ op.time_in = Strftime(op.clock_in[1], op.clock_in[2])
    /\ op.time_out = Strftime(op.clock_out[1], op.clock_out[2])
    /\ ret.kind = "float"
    /\ ret.rows[1].n * 60 =
         (MinuteOfDay(op.clock_out) - MinuteOfDay(op.clock_in)) * ret.rows[1].d
    /\ (op.clock_in = <<7, 0>> /\ op.clock_out = <<16, 30>>) =>
         ret.rows[1] = [n |-> 19, d |-> 2]

\* the worked hours of 07:00 to 16:30 were computed as 9.5
C9_NineAndAHalfReached ==
  /\ op.name = "hours_between_app"
  /\ op.time_in = <<"0", "7", ":", "0", "0">>
  /\ op.time_out = <<"1", "6", ":", "3", "0">>
  /\ ret = [kind |-> "float", rows |-> <<[n |-> 19, d |-> 2]>>]

\* the minute of the day a well-formed text means
MeantMinute(t) == (CHOOSE x \in WellFormedTexts : x[1] = t)[2]

\* time_out earlier than time_in, or either one missing or not HH:MM
NoWorkedHours(t_in, t_out) ==
  \/ t_in \in MissingTexts \cup MalformedTexts
  \/ t_out \in MissingTexts \cup MalformedTexts
  \/ MeantMinute(t_out) < MeantMinute(t_in)

\* C10: both worked-hours functions return 0.0, and raise nothing, when
\* time_out is earlier than time_in or either value is missing or not
\* parseable as HH:MM; a payroll run over a ledger holding one such record
\* still returns its frame, with the other worker's hours (07:00 to 17:30,
\* 10.5) intact and none counted for the odd record.
C10_ZeroNotRaise ==
  /\ (IsHours /\ NoWorkedHours(op.time_in, op.time_out)) =>
       ret = [kind |-> "float", rows |-> <<Zero>>]
  /\ IsPayroll =>
       /\ ret.kind = "DataFrame"
       /\ op.project_id \in {NoProject, 1} =>
            /\ \E i \in DOMAIN ret.rows :
                 /\ ret.rows[i].worker_code = 2
                 /\ ret.rows[i].total_hours = [n |-> 21, d |-> 2]
            /\ \A i \in DOMAIN ret.rows :
                 ret.rows[i].worker_code = 1 => ret.rows[i].total_hours = Zero

\* a payroll ran over a ledger whose first record has an unparseable
\* time_out, counting the day but no hours for it
C10_OddRecordReached ==
  /\ op.name = "payroll_app" /\ op.project_id = NoProject
  /\ \E r \in DOMAIN attendance : r.worker_id = 1 /\ r.time_out \in MalformedTexts
  /\ \E i \in DOMAIN ret.rows :
       /\ ret.rows[i].worker_code = 1
       /\ ret.rows[i].days_present = 1
       /\ ret.rows[i].total_hours = Zero

\* the present records of the month that a payroll row of worker w covers
RecordsInScope(w) ==
  IF op.project_id = NoProject THEN PresentOf(w) ELSE PresentOn(w, op.project_id)

\* C11: a worker's overtime_hours is the sum over the worker's records in
\* scope of max(hours - 9, 0): a day of 9 hours or less adds 0, a longer day
\* its exact excess, and a short day takes nothing off a long day's overtime.
C11_OvertimePerRecord ==
  (IsPayroll /\ ret.kind = "DataFrame") =>
    \A w \in workers : \A i \in RowsOf(w) :
      ret.rows[i].overtime_hours = Rat(ExcessMinutes(RecordsInScope(w.id)), 60)

\* a payroll ran for a worker with a 4-hour day and a 10-hour day: 14 hours
\* in 2 days, 1 hour of overtime
C11_ShortAndLongDayReached ==
  /\ op.name = "payroll_app" /\ op.project_id = NoProject
  /\ \E w \in workers : \E i \in RowsOf(w) :
       /\ {WorkedMinutes(r) : r \in PresentOf(w.id)} = {240, 600}
       /\ ret.rows[i].days_present = 2
       /\ ret.rows[i].total_hours = FromInt(14)
       /\ ret.rows[i].overtime_hours = FromInt(1)

\* C12: in app.py's per-project payroll, a worker whose company-wide
\* total_hours_all is 0 (every present record of the month was given 0
\* hours, e.g. for lack of usable times) gets base_share 0, and the run
\* returns its frame: no division error.
C12_NoHoursNoShare ==
  (op.name = "payroll_app" /\ op.project_id # NoProject) =>
    /\ ret.kind = "DataFrame"
    /\ \A w \in workers : \A i \in RowsOf(w) :
         ComputedTotal(PresentOf(w.id)) = 0 =>
           /\ "base_share" \in DOMAIN ret.rows[i]
           /\ ret.rows[i].base_share = Zero

\* a per-project payroll returned a row for a worker present one day with
\* no usable times, beside a worker with hours and a positive share
C12_ZeroHoursRowReached ==
  /\ op.name = "payroll_app" /\ op.project_id = 1
  /\ \E i, j \in DOMAIN ret.rows :
       /\ ret.rows[i].worker_code = 1
       /\ ret.rows[i].days_present = 1
       /\ ret.rows[i].total_hours = Zero
       /\ ret.rows[i].base_share = Zero
       /\ ret.rows[j].worker_code = 2
       /\ ret.rows[j].base_share.n > 0

\* C13: when the worker directory is empty, the payroll computation returns
\* an explicit "no data" value, one that is not what a successful computation
\* of zero rows returns (the empty frame).
C13_EmptyDirectorySentinel ==
  (IsPayroll /\ workers = {}) =>
    /\ ret = NoneValue
    /\ ret # DataFrame(<<>>)

\* the first day of the month after (year, month)
FollowingMonth(year, month) ==
  IF month = 12 THEN <<year + 1, 1, 1>> ELSE <<year, month + 1, 1>>

\* C14: payroll for (year, month) counts exactly the present records dated
\* in that calendar month, i.e. from the 1st of the month up to, and not
\* including, the 1st of the following month (1 January of year + 1 after
\* December): every row's days and hours are those of these records, a
\* record dated on the 1st counts and one dated on the following 1st or in
\* any other month does not.  (Hours as the run computed them.)
C14_MonthRange ==
  (IsPayroll /\ ret.kind = "DataFrame") =>
    /\ MonthStart(op.year, op.month) = <<op.year, op.month, 1>>
    /\ MonthEndApp(op.year, op.month) = FollowingMonth(op.year, op.month)
    /\ MonthEndCore(op.year, op.month) = FollowingMonth(op.year, op.month)
    /\ \A w \in workers : \A i \in RowsOf(w) :
         /\ ret.rows[i].days_present = DaysOf(RecordsInScope(w.id))
         /\ ret.rows[i].total_hours = Rat(ComputedTotal(RecordsInScope(w.id)), 60)
         /\ ret.rows[i].overtime_hours = Rat(ComputedExcess(RecordsInScope(w.id)), 60)

\* the December payroll ran over a ledger with present records on 30
\* November, 1 and 31 December and 1 January, and counted the two of December
C14_YearEndReached ==
  /\ op.name = "payroll_app" /\ op.year = 2024 /\ op.month = 12
  /\ op.project_id = NoProject
  /\ op.rolled = NoRecord
  /\ \A d \in BoundaryDates : MarkedRecord(d, "present") \in DOMAIN attendance
  /\ \E i \in DOMAIN ret.rows :
       /\ ret.rows[i].worker_code = 1
       /\ ret.rows[i].days_present = 2
       /\ ret.rows[i].total_hours = FromInt(19)

\* the step repeats the payroll call of the state it leaves: same function,
\* year, month and scope, over the same two tables
SamePayrollAgain ==
  /\ IsPayroll
  /\ op'.name = op.name
  /\ op'.year = op.year /\ op'.month = op.month
  /\ op'.project_id = op.project_id
  /\ workers' = workers /\ attendance' = attendance

\* C15: payroll is idempotent: running it again for the same year, month
\* and scope while neither the ledger nor the directory has changed returns
\* the same result.
C15_Idempotent == [][SamePayrollAgain => ret' = ret]_vars

\* C16: a payroll run only reads: whatever it returns (rows, zero rows, an
\* empty frame or None), the step leaves the attendance ledger and the
\* worker directory as they were.
C16_PayrollReadsOnly ==
  [][(op'.name \in {"payroll_app", "payroll_core"})
       => (workers' = workers /\ attendance' = attendance)]_vars

\* payroll ran over a directory cut down to one worker, returned that
\* worker's row, and the worker's attendance is still stored
C16_LedgerKeptReached ==
  /\ IsPayroll
  /\ Cardinality(workers) = 1
  /\ ret.kind = "DataFrame" /\ Len(ret.rows) = 1
  /\ attendance # EmptyBag

\* the money and hours fields of a payroll row
RoundedFields(row) ==
  {row.total_hours, row.overtime_hours, row.hourly_rate, row.overtime_pay,
   row.net_pay}
    \cup (IF "base_share" \in DOMAIN row THEN {row.base_share} ELSE {})

\* C17: on every return path, every returned row has total_hours,
\* overtime_hours, hourly_rate, base_share (when the row has one),
\* overtime_pay and net_pay rounded to 2 decimals, and carries the worker's
\* salary, the days of the month and the count of present days as they are.
C17_RowsRounded ==
  (IsPayroll /\ ret.kind = "DataFrame") =>
    \A w \in workers : \A i \in RowsOf(w) :
      /\ \A x \in RoundedFields(ret.rows[i]) : IsRounded2(x)
      /\ ret.rows[i].salary = w.salary
      /\ ret.rows[i].days_in_month \in 28..31
      /\ ret.rows[i].days_present = DaysOf(RecordsInScope(w.id))

\* C18: in every row with a base_share that a per-project payroll of app.py
\* emits, the net_pay field is the sum of the row's base_share field and its
\* overtime_pay field.
C18_NetPayIsSumOfFields ==
  (op.name = "payroll_app" /\ op.project_id # NoProject /\ ret.kind = "DataFrame") =>
    \A i \in DOMAIN ret.rows :
      "base_share" \in DOMAIN ret.rows[i] =>
        ret.rows[i].net_pay = RAdd(ret.rows[i].base_share, ret.rows[i].overtime_pay)

\* the ledger with the same records, every one of them signed in and out at
\* the times t
Retimed(att, t) ==
  SetToBag({[r EXCEPT !.time_in = t[1], !.time_out = t[2]] : r \in DOMAIN att})

\* the company-wide payroll of the call at hand over the ledger att
CompanyPayrollOver(att) ==
  IF op.name = "payroll_app"
  THEN GenerateMonthlyPayrollApp(workers, att, op.year, op.month, NoProject, NoRecord)
  ELSE GenerateMonthlyPayrollCore(workers, att, op.year, op.month, NoProject)

\* the rows of worker w in the frame df
RowsIn(df, w) == {df.rows[i] : i \in {j \in DOMAIN df.rows :
                                       df.rows[j].worker_code = w.worker_code}}

\* C19: base pay goes by days present, not by hours.  In a company-wide
\* payroll the base a row pays (net_pay less overtime_pay; base_earned is not
\* a column of the result) is salary x present dates / days_in_month,
\* whatever the hours, a 4-hour day counting as a day; and the same ledger
\* with other sign-in and sign-out times gives every worker the same
\* days_present and the same base.  (A cent of tolerance per rounded field.)
C19_BaseByDays ==
  (IsPayroll /\ op.project_id = NoProject /\ ret.kind = "DataFrame") =>
    \A w \in workers : \A row \in RowsIn(ret, w) :
      /\ row.days_present = DaysOf(PresentOf(w.id))
      /\ Within(BaseOfRow(row), FormulaBase(row, DaysOf(PresentOf(w.id))), Cents(1))
      /\ \A t \in JuneTimes :
           /\ RowsIn(CompanyPayrollOver(Retimed(attendance, t)), w) # {}
           /\ \A other \in RowsIn(CompanyPayrollOver(Retimed(attendance, t)), w) :
                /\ other.days_present = row.days_present
                /\ Within(BaseOfRow(other), BaseOfRow(row), Cents(2))

\* a company-wide payroll ran for a worker whose only present day had 4
\* worked hours: one day present, one day's base and no overtime
C19_FourHourDayReached ==
  /\ IsPayroll /\ op.project_id = NoProject /\ op.rolled = NoRecord
  /\ \E w \in workers : \E row \in RowsIn(ret, w) :
       /\ {WorkedMinutes(r) : r \in PresentOf(w.id)} = {240}
       /\ Cardinality(PresentOf(w.id)) = 1
       /\ row.days_present = 1
       /\ row.overtime_hours = Zero
       /\ row.net_pay = Round2(Rat(w.salary, row.days_in_month))

\* the payroll aggregates of every row are those of the worker's records
\* marked present
AbsentOutOfPayroll ==
  (IsPayroll /\ ret.kind = "DataFrame") =>
    \A w \in workers : \A i \in RowsOf(w) :
      /\ ret.rows[i].days_present = DaysOf(RecordsInScope(w.id))
      /\ ret.rows[i].total_hours = Rat(ComputedTotal(RecordsInScope(w.id)), 60)
      /\ ret.rows[i].overtime_hours = Rat(ComputedExcess(RecordsInScope(w.id)), 60)

\* the attendance report shows no hours on a record marked absent
AbsentShowsNoHours ==
  (op.name = "reports_page" /\ ret.kind = "DataFrame") =>
    \A i \in DOMAIN ret.rows :
      ret.rows[i].signed_in = 0 =>
        (ret.rows[i].hours = Zero /\ ret.rows[i].ot_hours = Zero)

\* C20: a record whose present flag is false counts as absent with zero
\* hours, whatever times it carries: it adds nothing to days_present,
\* total_hours or overtime_hours of any payroll row, and the attendance
\* report shows zero worked hours for it.
C20_AbsentMeansZeroHours == AbsentOutOfPayroll /\ AbsentShowsNoHours

\* the sum, over the projects ps, of the overtime_hours of worker w's row in
\* the per-project payroll of each
RECURSIVE SumOvertime(_, _)
SumOvertime(w, ps) ==
  IF ps = {} THEN Zero
  ELSE LET p    == CHOOSE q \in ps : TRUE
           rows == ProjectPayroll(p).rows
           mine == {i \in DOMAIN rows : rows[i].worker_code = w.worker_code}
       IN  RAdd(IF mine = {} THEN Zero ELSE rows[CHOOSE i \in mine : TRUE].overtime_hours,
                SumOvertime(w, ps \ {p}))

\* C21: overtime belongs to the project it was worked on.  In app.py a
\* per-project row's overtime_pay is the rate times the overtime of the
\* worker's records on that project alone, and a worker's per-project
\* overtime_hours, summed over the projects worked, are the worker's
\* company-wide overtime_hours of the month (half a cent of rounding per
\* figure).
C21_OvertimeByProject ==
  (op.name = "payroll_app" /\ ret.kind = "DataFrame") =>
    \A w \in workers : \A i \in RowsOf(w) :
      IF op.project_id = NoProject
      THEN Within(SumOvertime(w, ProjectsWorked(w.id)), ret.rows[i].overtime_hours,
                  Rat(5 * (Cardinality(ProjectsWorked(w.id)) + 1), 1000))
      ELSE ret.rows[i].overtime_pay =
             Round2(FormulaOvertimePay(ret.rows[i],
                                       ExactOvertime(PresentOn(w.id, op.project_id))))

\* C22: days_in_month of every payroll row is the number of calendar days of
\* the month asked for: 28 or 29 in February by leap year, 30 or 31
\* otherwise, 31 in December.
C22_CalendarDays ==
  (IsPayroll /\ ret.kind = "DataFrame") =>
    \A i \in DOMAIN ret.rows :
      ret.rows[i].days_in_month = DaysInMonthTable(op.year, op.month)

Replacing(c) ==
  /\ connections[c].pc \in {"deleted", "inserted"}
  /\ connections[c].present = 1
  /\ BagCardinality(connections[c].deleted) = 1
  /\ RowsOfDay(connections[c].worker_id, connections[c].att_date) = connections[c].deleted
  /\ \A o \in Clients \ {c} : ~InFlight(o)

OldRecord(c) == CHOOSE r \in DOMAIN connections[c].deleted : TRUE

NewRecord(c) ==
  AttRecord(connections[c].worker_id, connections[c].project_id,
            connections[c].att_date, 1, connections[c].time_in, connections[c].time_out)

\* C24: a company payroll run while a client is replacing the record of a
\* (worker, date) of its month, between the DELETE and the commit, counts for
\* that worker the records of the other dates and, for that date, either the
\* old record or the new one: one day, and the hours of one of the two,
\* never no record and never both.
C24_OldOrNewRecord ==
  (IsPayroll /\ ret.kind = "DataFrame") =>
    \A c \in Clients :
      Replacing(c) =>
        \A w \in workers : \A i \in RowsOf(w) :
          w.id = connections[c].worker_id =>
            LET others == {r \in PresentOf(w.id) : r.att_date # connections[c].att_date}
            IN  \E seen \in {OldRecord(c), NewRecord(c)} :
                  /\ ret.rows[i].days_present = DaysOf(others \cup {seen})
                  /\ ret.rows[i].total_hours =
                       Rat(ComputedTotal(others \cup {seen}), 60)

\* a payroll ran after a client had deleted the 9.5-hour record of worker 1
\* and inserted a 10.5-hour one without committing, and shows one day of 9.5
\* hours
C24_PayrollInFlightReached ==
  /\ IsPayroll /\ ret.kind = "DataFrame" /\ op.rolled = NoRecord
  /\ \E c \in Clients :
       /\ Replacing(c)
       /\ connections[c].pc = "inserted"
       /\ connections[c].worker_id = 1
       /\ OldRecord(c).time_out = Strftime(16, 30)
       /\ NewRecord(c).time_out = Strftime(17, 30)
  /\ \E i \in DOMAIN ret.rows :
       /\ ret.rows[i].worker_code = 1
       /\ ret.rows[i].days_present = 1
       /\ ret.rows[i].total_hours = Rat(19, 2)

\* C27: when no entry operation is in flight, whatever entry operations ran
\* and however their statements interleaved, the ledger holds at most one
\* record per (worker, date).
C27_OneRecordAfterRace ==
  (\A c \in Clients : ~InFlight(c)) =>
    \A w \in workers : \A d \in AttendanceDates : RecordCount(w.id, d) <= 1

IsFormSave == op.name \in {"save_project_attendance", "save_daily_attendance"}

\* the present records of today that the form just saved was not about: of
\* a worker whose box the user left alone, and on another project than the
\* form's when it is a project's form
LeftAlone(att, form) ==
  {r \in DOMAIN att :
     /\ r.att_date = TODAY /\ r.signed_in = 1
     /\ r.worker_id \notin form.touched
     /\ form.name = "save_project_attendance" => r.project_id # form.project_id}

\* C25: saving an attendance form changes only what the user changed.  A
\* present record of today of a worker whose box the user did not touch, on
\* another project than the one whose form is saved, is in the ledger after
\* the save as it was before: same project, time in and time out.
C25_SaveKeepsUntouched ==
  [][IsFormSave' => \A r \in LeftAlone(attendance, op') :
                      r \in DOMAIN attendance' /\ attendance'[r] = attendance[r]]_vars

\* C26: worker codes are unique.  After any sequence of employees added (by
\* the sidebar, by a save of the database page with one or several new rows,
\* by the cloud form) and deleted, no two workers of the directory have the
\* same worker_code.
C26_UniqueWorkerCodes ==
  \A a \in workers : \A b \in workers : a.worker_code = b.worker_code => a.id = b.id

\* C28: in every row of a company-wide payroll, of any month, days_present
\* is at most days_in_month, and so the base pay earned, salary x
\* days_present / days_in_month, which is what net_pay holds beyond
\* overtime_pay (to a cent of rounding), is at most the monthly salary.
C28_DaysWithinMonth ==
  (IsPayroll /\ op.project_id = NoProject /\ ret.kind = "DataFrame") =>
    \A i \in DOMAIN ret.rows :
      /\ ret.rows[i].days_present <= ret.rows[i].days_in_month
      /\ RLe(FormulaBase(ret.rows[i], ret.rows[i].days_present),
             FromInt(ret.rows[i].salary))
      /\ RLe(ret.rows[i].net_pay,
             RAdd(RAdd(FromInt(ret.rows[i].salary), ret.rows[i].overtime_pay), Cents(1)))

\* C29: what the Payroll page shows under the label of a year, month and
\* scope are the rows computed for that year, month and scope: after any
\* sequence of selection changes and Generate Payroll clicks, whenever a
\* frame is shown, it is the one generated for the selection of the label.
C29_ShownForSelection ==
  (op.name = "payroll_page" /\ ret.kind = "DataFrame") =>
    /\ session_state.year = op.year
    /\ session_state.month = op.month
    /\ session_state.project_id = op.project_id

\* the company-wide payroll of the call's month by each variant over the
\* tables of the state: the frame the call returned for its own variant
LocalFrame ==
  IF op.name = "payroll_app" THEN ret
  ELSE GenerateMonthlyPayrollApp(workers, attendance, op.year, op.month, NoProject,
                                 NoRecord)

CloudFrame ==
  IF op.name = "payroll_core" THEN ret
  ELSE GenerateMonthlyPayrollCore(workers, attendance, op.year, op.month, NoProject)

\* rows a and b agree on the four figures, to a cent
SameFigures(a, b) ==
  /\ a.days_present = b.days_present
  /\ Within(a.total_hours, b.total_hours, Cents(1))
  /\ Within(a.overtime_hours, b.overtime_hours, Cents(1))
  /\ Within(a.net_pay, b.net_pay, Cents(1))

\* C30: for company-wide scope and a month of 30 calendar days, app.py and
\* core.py generate_monthly_payroll over the same directory and ledger
\* return, for every worker, the same days_present, total_hours,
\* overtime_hours and net_pay, up to the rounding to 2 decimals.
C30_VariantsAgree ==
  (IsPayroll /\ op.project_id = NoProject
     /\ DaysInMonthTable(op.year, op.month) = FIXED_DAYS_IN_MONTH) =>
    \A w \in workers :
      /\ RowsIn(LocalFrame, w) # {}
      /\ RowsIn(CloudFrame, w) # {}
      /\ \A a \in RowsIn(LocalFrame, w) : \A c \in RowsIn(CloudFrame, w) :
           SameFigures(a, c)

====
